---- MODULE Spec2Model ----
(***************************************************************************)
(* Unified Agenda compiler: the XML-to-record flatteners                   *)
(* (UA_COMPILER_8_21_25.py, UA_Parser_For_Single_xml_9_12_25.py), the      *)
(* cross-snapshot reducer build_last, the Runner's last-per-RIN table     *)
(* (Runs_UA_Compiler.py), the date parsers, the normalizers and the        *)
(* RIN_INFO parser of reginfo_patch.py, flatten_rin_info of UA_CHECKER.py  *)
(* and the streaming pass of iter_rin_records with its cleanup loops.      *)
(*                                                                         *)
(* An XML element tree is a sequence of nodes in document order; a node is *)
(* [tag, text, d] with d its depth below the RIN_INFO element (depth 0).   *)
(* The parent of node i is the nearest earlier node of depth d-1.          *)
(* Text is a string; None is the text of an element without text.          *)
(* A string the code takes apart (a publication id, a date) is given to    *)
(* the model as its sequence of characters (Chars) or its regex shape      *)
(* (DateShape).  An ISO date "YYYY-MM-DD" is the tuple <<Y, M, D>> and the *)
(* empty string in a date column is <<>>: the tuple order is the string    *)
(* order of the zero-padded ISO form.                                      *)
(***************************************************************************)
EXTENDS Integers, Sequences, FiniteSets, TLC

None == "<None>"
NaN  == "<NaN>"

----------------------------------------------------------------------------
(* Text helpers *)

\* t(x) = (x or "").strip()
t(x) ==
  CASE x = None    -> ""
    [] x = " "     -> ""
    [] x = " R1 "  -> "R1"
    [] x = "EPA "  -> "EPA"
    [] OTHER       -> x

\* localname(tag) = tag.split("}", 1)[-1]
localname(tag) ==
  CASE tag = "{ua}RIN_INFO" -> "RIN_INFO"
    [] tag = "{ua}RIN"      -> "RIN"
    [] OTHER                -> tag

\* str.lower() on the tag vocabulary
lower(s) ==
  CASE s = "RIN_INFO"             -> "rin_info"
    [] s = "RIN"                  -> "rin"
    [] s = "Rin"                  -> "rin"
    [] s = "PUBLICATION"          -> "publication"
    [] s = "PUBLICATION_ID"       -> "publication_id"
    [] s = "PUBLICATION_TITLE"    -> "publication_title"
    [] s = "AGENCY"               -> "agency"
    [] s = "PARENT_AGENCY"        -> "parent_agency"
    [] s = "CODE"                 -> "code"
    [] s = "NAME"                 -> "name"
    [] s = "ACRONYM"              -> "acronym"
    [] s = "RULE_TITLE"           -> "rule_title"
    [] s = "RULE_STAGE"           -> "rule_stage"
    [] s = "ABSTRACT"             -> "abstract"
    [] s = "EO_13771_DESIGNATION" -> "eo_13771_designation"
    [] s = "TIMETABLE_LIST"       -> "timetable_list"
    [] s = "TIMETABLE"            -> "timetable"
    [] s = "TTBL_ACTION"          -> "ttbl_action"
    [] s = "TTBL_DATE"            -> "ttbl_date"
    [] s = "FR_CITATION"          -> "fr_citation"
    [] s = "ACTION"               -> "action"
    [] s = "DATE"                 -> "date"
    [] s = "RELATED_RIN_LIST"     -> "related_rin_list"
    [] s = "RELATED_RIN"          -> "related_rin"
    [] s = "RIN_RELATION"         -> "rin_relation"
    [] s = "CHILD_RIN_LIST"       -> "child_rin_list"
    [] s = "CHILD_RIN"            -> "child_rin"
    [] s = "AGENCY_CONTACT_LIST"  -> "agency_contact_list"
    [] s = "CONTACT"              -> "contact"
    [] s = "TITLE"                -> "title"
    [] s = "CFR_LIST"             -> "cfr_list"
    [] s = "CFR"                  -> "cfr"
    [] OTHER                      -> s

\* snake(s): lower-snake-case; the tags of the vocabulary hold only word
\* characters, so the substitutions leave them alone and lower() remains.
snake(s) == lower(s)

\* _CANON.get(key, key)
canon(col) ==
  LET key == snake(col) IN
  CASE key = "rule_title" -> "title"
    [] key = "rule_stage" -> "stage"
    [] OTHER              -> key

\* The characters of the strings the code takes apart.
Chars(s) ==
  CASE s = ""         -> <<>>
    [] s = "199510"   -> <<"1","9","9","5","1","0">>
    [] s = "199512"   -> <<"1","9","9","5","1","2">>
    [] s = "199604"   -> <<"1","9","9","6","0","4">>
    [] s = "201810"   -> <<"2","0","1","8","1","0">>
    [] s = "201904"   -> <<"2","0","1","9","0","4">>
    [] s = "202010"   -> <<"2","0","2","0","1","0">>
    [] s = "1995-10"  -> <<"1","9","9","5","-","1","0">>
    [] s = "1995"     -> <<"1","9","9","5">>
    [] s = "2018100"  -> <<"2","0","1","8","1","0","0">>
    [] s = "Fall"     -> <<"F","a","l","l">>
    [] OTHER          -> <<"?">>

IsDigit(c) == c \in {"0","1","2","3","4","5","6","7","8","9"}

DigitVal(c) ==
  CASE c = "0" -> 0 [] c = "1" -> 1 [] c = "2" -> 2 [] c = "3" -> 3
    [] c = "4" -> 4 [] c = "5" -> 5 [] c = "6" -> 6 [] c = "7" -> 7
    [] c = "8" -> 8 [] c = "9" -> 9 [] OTHER -> 0

\* code point order of the characters used
Ord(c) ==
  CASE c = "-" -> 45 [] c = "?" -> 63 [] c = "F" -> 70 [] c = "a" -> 97
    [] c = "l" -> 108 [] OTHER -> 48 + DigitVal(c)

\* s.isdigit(): non-empty and all digits
isdigit(cs) == Len(cs) > 0 /\ \A i \in 1..Len(cs) : IsDigit(cs[i])

\* re.sub(r"\D", "", s)
StripNonDigits(cs) == SelectSeq(cs, IsDigit)

RECURSIVE IntOf(_)
\* int(s) of a digit string
IntOf(cs) ==
  IF cs = <<>> THEN 0
  ELSE 10 * IntOf(SubSeq(cs, 1, Len(cs) - 1)) + DigitVal(cs[Len(cs)])

RECURSIVE StrLess(_, _)
\* a < b on strings (lexicographic by code point)
StrLess(a, b) ==
  IF b = <<>> THEN FALSE
  ELSE IF a = <<>> THEN TRUE
  ELSE IF Ord(a[1]) # Ord(b[1]) THEN Ord(a[1]) < Ord(b[1])
  ELSE StrLess(Tail(a), Tail(b))

StrLeq(a, b) == a = b \/ StrLess(a, b)

\* Alphabetical rank of the action labels used ("" < "Final" < "NPRM" < "Proposed")
LabelRank(s) ==
  CASE s = ""         -> 0
    [] s = "Final"    -> 1
    [] s = "NPRM"     -> 2
    [] s = "Proposed" -> 3
    [] OTHER          -> 4

----------------------------------------------------------------------------
(* Dates *)

\* What the regular expressions of the date normalizers see in a raw date:
\* "mdy" matches (\d{1,2})/(\d{1,2})/(\d{4}), "my" matches (\d{1,2})/(\d{4}),
\* "tobe"/"tbd" start with "to be"/"tbd" in lower case, "text" is free text
\* in which dateutil's fuzzy parser finds the date given, "junk" is text it
\* rejects.
DateShape(s) ==
  CASE s = ""                 -> [k |-> "empty", m |-> 0,  d |-> 0,  y |-> 0]
    [] s = "To Be Determined" -> [k |-> "tobe",  m |-> 0,  d |-> 0,  y |-> 0]
    [] s = "TBD"              -> [k |-> "tbd",   m |-> 0,  d |-> 0,  y |-> 0]
    [] s = "10/01/1995"       -> [k |-> "mdy",   m |-> 10, d |-> 1,  y |-> 1995]
    [] s = "01/01/1996"       -> [k |-> "mdy",   m |-> 1,  d |-> 1,  y |-> 1996]
    [] s = "04/00/1996"       -> [k |-> "mdy",   m |-> 4,  d |-> 0,  y |-> 1996]
    [] s = "02/30/1996"       -> [k |-> "mdy",   m |-> 2,  d |-> 30, y |-> 1996]
    [] s = "13/01/1996"       -> [k |-> "mdy",   m |-> 13, d |-> 1,  y |-> 1996]
    [] s = "10/01/2018"       -> [k |-> "mdy",   m |-> 10, d |-> 1,  y |-> 2018]
    [] s = "10/2018"          -> [k |-> "my",    m |-> 10, d |-> 0,  y |-> 2018]
    [] s = "June 1996"        -> [k |-> "text",  m |-> 6,  d |-> 1,  y |-> 1996]
    [] OTHER                  -> [k |-> "junk",  m |-> 0,  d |-> 0,  y |-> 0]

\* parse_tt_date on the shape of the stripped raw date: "mdy1" is "mdy"
\* written with a one-digit month or day, which the patterns \d{1,2} take
\* alike; nothing checks the day against the calendar
parse_tt_date_shape(sh) ==
  IF sh.k \in {"none", "empty", "tobe", "tbd"} THEN <<>>
  ELSE IF sh.k \in {"mdy", "mdy1"}
    THEN IF ~(1 <= sh.m /\ sh.m <= 12) THEN <<>>
         ELSE <<sh.y, sh.m, IF sh.d = 0 THEN 1 ELSE sh.d>>
  ELSE IF sh.k = "my"
    THEN IF ~(1 <= sh.m /\ sh.m <= 12) THEN <<>>
         ELSE <<sh.y, sh.m, 1>>
  ELSE IF sh.k = "text" THEN <<sh.y, sh.m, sh.d>>
  ELSE <<>>

\* parse_tt_date(raw)[1]: the ISO date, <<>> for ''
parse_tt_date(raw) ==
  LET s == t(raw)
  IN  IF s = "" THEN <<>> ELSE parse_tt_date_shape(DateShape(s))

\* a < b on ISO date strings ('' lowest)
IsoLess(a, b) ==
  IF b = <<>> THEN FALSE
  ELSE IF a = <<>> THEN TRUE
  ELSE \/ a[1] < b[1]
       \/ a[1] = b[1] /\ a[2] < b[2]
       \/ a[1] = b[1] /\ a[2] = b[2] /\ a[3] < b[3]

----------------------------------------------------------------------------
(* reginfo_patch.py: _parse_partial_date *)

\* datetime._is_leap(year)
_is_leap(year) == year % 4 = 0 /\ (year % 100 # 0 \/ year % 400 = 0)

\* datetime._days_in_month(year, month)
_days_in_month(year, month) ==
  IF month = 2 THEN (IF _is_leap(year) THEN 29 ELSE 28)
  ELSE IF month \in {4, 6, 9, 11} THEN 30 ELSE 31

\* a constructor of dates that checks nothing
date_any(yy, mm, dd) == TRUE

\* date(yy, mm, dd) does not raise ValueError
date_ok(yy, mm, dd) ==
  /\ 1 <= yy /\ yy <= 9999
  /\ 1 <= mm /\ mm <= 12
  /\ 1 <= dd /\ dd <= _days_in_month(yy, mm)

\* _parse_partial_date(va) on the shape of va: _DATE_RE takes two digits for
\* month and day ("mdy"); the result is the date (<<>> for None) and the
\* precision
_parse_partial_date(sh) ==
  IF sh.k \in {"none", "empty"} THEN [date |-> <<>>, precision |-> "unknown"]
  ELSE IF sh.k # "mdy" THEN [date |-> <<>>, precision |-> "unknown"]
  ELSE IF sh.m = 0 /\ sh.d = 0 THEN [date |-> <<>>, precision |-> "unknown"]
  ELSE IF sh.d = 0
    THEN IF date_ok(sh.y, sh.m, 1)
           THEN [date |-> <<sh.y, sh.m, 1>>, precision |-> "month"]
           ELSE [date |-> <<>>, precision |-> "unknown"]
  ELSE IF date_ok(sh.y, sh.m, sh.d)
    THEN [date |-> <<sh.y, sh.m, sh.d>>, precision |-> "day"]
    ELSE [date |-> <<>>, precision |-> "unknown"]

\* An optional text of reginfo_patch: None, or the string as its characters.
\* An HTML entity of the source text is one element ("&amp;", "&nbsp;").
NoText == [none |-> TRUE, cs |-> <<>>]

Text(cs) == [none |-> FALSE, cs |-> cs]

\* html.unescape, per character: the entities become their character
unescape(cs) ==
  [i \in 1..Len(cs) |-> CASE cs[i] = "&amp;"  -> "&"
                          [] cs[i] = "&nbsp;" -> "<nbsp>"
                          [] OTHER            -> cs[i]]

\* a character \s matches and str.strip() removes
IsSpace(c) == c \in {" ", "\t", "<nbsp>"}

RECURSIVE strip_left(_)
strip_left(cs) ==
  IF cs # <<>> /\ IsSpace(cs[1]) THEN strip_left(Tail(cs)) ELSE cs

RECURSIVE strip_right(_)
strip_right(cs) ==
  IF cs # <<>> /\ IsSpace(cs[Len(cs)]) THEN strip_right(SubSeq(cs, 1, Len(cs) - 1)) ELSE cs

\* str.strip()
strip(cs) == strip_right(strip_left(cs))

RECURSIVE collapse(_)
\* re.sub(r"\s+", " ", t): each run of whitespace becomes one blank
collapse(cs) ==
  IF cs = <<>> THEN <<>>
  ELSE IF IsSpace(cs[1])
    THEN <<" ">> \o collapse(strip_left(cs))
    ELSE <<cs[1]>> \o collapse(Tail(cs))

\* _clean_text(text)
_clean_text(x) ==
  IF x.none THEN NoText
  ELSE LET c == strip(collapse(unescape(x.cs)))
       IN  IF c = <<>> THEN NoText ELSE Text(c)

\* str.lower(), per character
lower_char(c) ==
  CASE c = "Y" -> "y" [] c = "E" -> "e" [] c = "S" -> "s" [] c = "N" -> "n"
    [] c = "O" -> "o" [] c = "T" -> "t" [] c = "R" -> "r" [] c = "U" -> "u"
    [] c = "F" -> "f" [] c = "A" -> "a" [] c = "L" -> "l" [] OTHER -> c

lower_seq(cs) == [i \in 1..Len(cs) |-> lower_char(cs[i])]

_BOOL_TRUE == {<<"y", "e", "s">>, <<"y">>, <<"t", "r", "u", "e">>, <<"t">>, <<"1">>}

_BOOL_FALSE == {<<"n", "o">>, <<"n">>, <<"f", "a", "l", "s", "e">>, <<"f">>, <<"0">>}

\* the result of a boolean or tri-state normalizer: None, a bool or a string
NoneResult == [kind |-> "none", b |-> FALSE, cs |-> <<>>]

BoolResult(b) == [kind |-> "bool", b |-> b, cs |-> <<>>]

StrResult(cs) == [kind |-> "str", b |-> FALSE, cs |-> cs]

\* _to_bool(val)
_to_bool(x) ==
  IF x.none THEN NoneResult
  ELSE LET v == lower_seq(strip(x.cs))
       IN  IF v \in _BOOL_TRUE THEN BoolResult(TRUE)
           ELSE IF v \in _BOOL_FALSE THEN BoolResult(FALSE)
           ELSE NoneResult

\* a tri-state normalizer that keeps what _to_bool returns
_to_bool_only(x) == _to_bool(_clean_text(x))

\* _normalize_tri_state(v)
_normalize_tri_state(x) ==
  LET vv == _clean_text(x)
      lb == _to_bool(vv)
  IN  IF vv.none THEN NoneResult
      ELSE IF lb.kind # "none" THEN lb ELSE StrResult(vv.cs)

\* "".join(_PHONE_DIGITS_RE.findall(p))
phone_digits(cs) == SelectSeq(cs, IsDigit)

\* a phone normalizer that returns the digits as they are
_digits_only(x) ==
  LET p == _clean_text(x)
  IN  IF p.none \/ phone_digits(p.cs) = <<>> THEN NoText ELSE Text(phone_digits(p.cs))

\* _normalize_phone(p)
_normalize_phone(x) ==
  LET p      == _clean_text(x)
      digits == IF p.none THEN <<>> ELSE phone_digits(p.cs)
  IN  IF p.none THEN NoText
      ELSE IF digits = <<>> THEN NoText
      ELSE IF Len(digits) = 10 THEN Text(<<"+", "1">> \o digits)
      ELSE IF Len(digits) = 11 /\ digits[1] = "1" THEN Text(<<"+">> \o digits)
      ELSE Text(digits)

----------------------------------------------------------------------------
(* Element trees *)

Node(tag, text, d) == [tag |-> tag, text |-> text, d |-> d]

\* the tag lxml gives a comment node: the function etree.Comment, not a string
CommentTag == "<Comment>"

IsComment(n) == n.tag = CommentTag

RECURSIVE Concat(_)
Concat(ss) == IF ss = <<>> THEN <<>> ELSE Head(ss) \o Concat(Tail(ss))

\* map f over a sequence of node indices
Indices(n) == [i \in 1..n |-> i]

\* el.getparent(): 0 stands for an element above RIN_INFO (or none)
getparent(e, i) ==
  LET cand == {j \in 1..(i - 1) : e[j].d = e[i].d - 1}
  IN  IF cand = {} THEN 0 ELSE CHOOSE j \in cand : \A k \in cand : k <= j

\* last index of the subtree of node i
SubtreeEnd(e, i) ==
  LET stop == {j \in (i + 1)..Len(e) : e[j].d <= e[i].d}
  IN  IF stop = {} THEN Len(e)
      ELSE (CHOOSE j \in stop : \A k \in stop : j <= k) - 1

\* elem.iter(): the element and its descendants, in document order
iter(e, i) == [k \in 1..(SubtreeEnd(e, i) - i + 1) |-> i + k - 1]

\* len(el) > 0; also the truth value lxml gives an element
HasChild(e, i) == i < Len(e) /\ e[i + 1].d = e[i].d + 1

\* the children of node i, in order
ChildrenOf(e, i) ==
  LET isChild(j) == e[j].d = e[i].d + 1 IN SelectSeq(iter(e, i), isChild)

RECURSIVE has_ancestor_named(_, _, _)
has_ancestor_named(e, i, names_lower_set) ==
  LET p == getparent(e, i)
  IN  IF p = 0 THEN FALSE
      ELSE IF lower(localname(e[p].tag)) \in names_lower_set THEN TRUE
      ELSE has_ancestor_named(e, p, names_lower_set)

all_desc_by_name(e, i, name_lower, exclude_under) ==
  LET hit(j) == /\ lower(localname(e[j].tag)) = name_lower
                /\ ~(exclude_under # {} /\ has_ancestor_named(e, j, exclude_under))
  IN  SelectSeq(iter(e, i), hit)

\* 0 stands for None
first_desc_by_name(e, i, name_lower, exclude_under) ==
  LET all == all_desc_by_name(e, i, name_lower, exclude_under)
  IN  IF all = <<>> THEN 0 ELSE all[1]

\* t(node.text) if node is not None else ""
TextOrEmpty(e, i) == IF i = 0 THEN "" ELSE t(e[i].text)

\* Python's `a or b` on two lookups: lxml gives an element without children
\* the truth value False, and None is false
OrElem(e, a, b) == IF a # 0 /\ HasChild(e, a) THEN a ELSE b

----------------------------------------------------------------------------
(* Sorting *)

\* sorted(s, key=...) / list.sort(key=...): a stable sort.  Less(a, b) is
\* key(a) < key(b); an item goes after the items with a smaller key and after
\* the earlier items with an equal key.
StableSort(s, Less(_, _)) ==
  LET before(i) == {j \in 1..Len(s) :
                      \/ Less(s[j], s[i])
                      \/ ~Less(s[i], s[j]) /\ j < i}
  IN  [p \in 1..Len(s) |->
         s[CHOOSE i \in 1..Len(s) : Cardinality(before(i)) = p - 1]]

----------------------------------------------------------------------------
(* UA_COMPILER_8_21_25.py: structured extractors *)

_LIST_CONTAINERS ==
  {"agency_contact_list", "timetable_list", "legal_dline_list", "cfr_list",
   "legal_authority_list", "small_entity_list", "govt_level_list",
   "related_rin_list", "unfunded_mandate_list"}

_EXCLUDE_ANCESTOR == _LIST_CONTAINERS \cup {"agency", "parent_agency", "publication"}

\* to_pub_ym_from_file: the six digits of REGINFO_RIN_DATA_(\d{6})\.xml$
to_pub_ym_from_file(fname) ==
  CASE fname = "REGINFO_RIN_DATA_199510.xml" -> "199510"
    [] fname = "REGINFO_RIN_DATA_201810.xml" -> "201810"
    [] fname = "REGINFO_RIN_DATA_202010.xml" -> "202010"
    [] OTHER                                 -> ""

\* pub_season(ym), ym given by its characters
pub_season(ym) ==
  IF ym = <<>> \/ Len(ym) # 6 \/ ~isdigit(ym) THEN ""
  ELSE IF SubSeq(ym, 5, 6) = <<"0", "4">> THEN "Spring"
  ELSE IF SubSeq(ym, 5, 6) = <<"1", "0">> THEN "Fall"
  ELSE ""

\* extract_publication: a key the dict lacks is NaN
extract_publication(e) ==
  LET pub == first_desc_by_name(e, 1, "publication", _LIST_CONTAINERS)
  IN  IF pub = 0
        THEN [publication_id |-> NaN, publication_title |-> NaN]
        ELSE [publication_id    |-> TextOrEmpty(e, first_desc_by_name(e, pub, "publication_id", {})),
              publication_title |-> TextOrEmpty(e, first_desc_by_name(e, pub, "publication_title", {}))]

\* extract_agency_block(rin_info, block_name)
extract_agency_block(e, block_name) ==
  LET blk == first_desc_by_name(e, 1, block_name, {"agency_contact_list"})
  IN  IF blk = 0
        THEN [code |-> "", name |-> "", acronym |-> ""]
        ELSE [code    |-> TextOrEmpty(e, first_desc_by_name(e, blk, "code", {})),
              name    |-> TextOrEmpty(e, first_desc_by_name(e, blk, "name", {})),
              acronym |-> TextOrEmpty(e, first_desc_by_name(e, blk, "acronym", {}))]

\* list_texts(rin_info, list_tag, item_tag)
list_texts(e, list_tag, item_tag) ==
  LET keep(j) == /\ lower(localname(e[j].tag)) = item_tag
                 /\ has_ancestor_named(e, j, {list_tag})
                 /\ ~has_ancestor_named(e, j, {"agency_contact_list"})
      lsts    == all_desc_by_name(e, 1, list_tag, {})
      items   == Concat([k \in 1..Len(lsts) |-> SelectSeq(iter(e, lsts[k]), keep)])
  IN  [k \in 1..Len(items) |-> t(e[items[k]].text)]

\* extract_related_rins(rin_info)
extract_related_rins(e) ==
  LET isRel(j) == lower(localname(e[j].tag)) = "related_rin"
      lsts     == all_desc_by_name(e, 1, "related_rin_list", {})
      items    == Concat([k \in 1..Len(lsts) |-> SelectSeq(iter(e, lsts[k]), isRel)])
  IN  [k \in 1..Len(items) |->
         [rin      |-> TextOrEmpty(e, first_desc_by_name(e, items[k], "rin", {})),
          relation |-> TextOrEmpty(e, first_desc_by_name(e, items[k], "rin_relation", {}))]]

\* extract_timetable(rin_info)
extract_timetable(e) ==
  LET isTt(j) == lower(localname(e[j].tag)) = "timetable"
      lsts    == all_desc_by_name(e, 1, "timetable_list", {})
      items   == Concat([k \in 1..Len(lsts) |-> SelectSeq(iter(e, lsts[k]), isTt)])
      one(tt) ==
        LET act == OrElem(e, first_desc_by_name(e, tt, "ttbl_action", {}),
                             first_desc_by_name(e, tt, "action", {}))
            dte == OrElem(e, first_desc_by_name(e, tt, "ttbl_date", {}),
                             first_desc_by_name(e, tt, "date", {}))
            fr  == first_desc_by_name(e, tt, "fr_citation", {})
            raw == t(TextOrEmpty(e, dte))
        IN  [action      |-> TextOrEmpty(e, act),
             date_raw    |-> raw,
             date_iso    |-> parse_tt_date(raw),
             fr_citation |-> TextOrEmpty(e, fr)]
  IN  [k \in 1..Len(items) |-> one(items[k])]

\* collect_scalar_leaves(rin_info)[key]; NaN when the dict has no such key
collect_scalar_leaves(e, key) ==
  LET taken(j) == /\ ~HasChild(e, j)
                  /\ localname(e[j].tag) # ""
                  /\ lower(localname(e[j].tag)) # "rin"
                  /\ ~has_ancestor_named(e, j, _EXCLUDE_ANCESTOR)
                  /\ t(e[j].text) # ""
                  /\ canon(localname(e[j].tag)) = key
      hits     == SelectSeq(iter(e, 1), taken)
  IN  IF hits = <<>> THEN NaN ELSE t(e[hits[Len(hits)]].text)

\* key order of sorted(tts, key=lambda d: (date_iso, action))
TtKeyLess(a, b) ==
  \/ IsoLess(a.date_iso, b.date_iso)
  \/ a.date_iso = b.date_iso /\ LabelRank(a.action) < LabelRank(b.action)

\* the per-issue latest of iter_rin_records: [iso, action]
LatestInIssue(tts) ==
  IF tts = <<>> THEN [iso |-> <<>>, action |-> ""]
  ELSE LET tts_sorted == StableSort(tts, TtKeyLess)
       IN  [iso    |-> tts_sorted[Len(tts_sorted)].date_iso,
            action |-> tts_sorted[Len(tts_sorted)].action]

----------------------------------------------------------------------------
(* UA_COMPILER_8_21_25.py: iter_rin_records *)

\* the identity iter_rin_records reads: first_desc_by_name(el, "rin")
RinOf(e) == TextOrEmpty(e, first_desc_by_name(e, 1, "rin", {}))

\* `if not rin: ... continue`: whether the entity is yielded
Yields(e) == RinOf(e) # ""

\* localname(d.tag) raises AttributeError on a comment node, whose tag is a
\* function without split. first_desc_by_name(el, "rin") walks el.iter() up
\* to the first RIN; for an entity with an identity the list extractors walk
\* all of el.iter()
iter_raises(e) ==
  LET rin_node == first_desc_by_name(e, 1, "rin", {})
      upto     == IF rin_node = 0 \/ Yields(e) THEN Len(e) ELSE rin_node
  IN  \E j \in 1..upto : IsComment(e[j])

\* rec.update(collect_scalar_leaves(el)) on one key
UpdatedBy(e, key, old) ==
  IF collect_scalar_leaves(e, key) = NaN THEN old ELSE collect_scalar_leaves(e, key)

\* the record iter_rin_records yields for entity e of file xml_path
iter_rin_records(e, xml_path) ==
  LET pub_ym_file == to_pub_ym_from_file(xml_path)
      pub         == extract_publication(e)
      pid         == IF pub.publication_id \in {NaN, ""} THEN pub_ym_file
                     ELSE pub.publication_id
      ag          == extract_agency_block(e, "agency")
      pag         == extract_agency_block(e, "parent_agency")
      tts         == extract_timetable(e)
      latest      == LatestInIssue(tts)
  IN  [rin                         |-> RinOf(e),
       publication_id              |-> Chars(UpdatedBy(e, "publication_id", pid)),
       publication_title           |-> UpdatedBy(e, "publication_title", pub.publication_title),
       pub_season                  |-> pub_season(Chars(pid)),
       source_xml                  |-> xml_path,
       agency_name                 |-> ag.name,
       agency_code                 |-> ag.code,
       agency                      |-> ag.name,
       parent_agency_name          |-> pag.name,
       cfr_list                    |-> list_texts(e, "cfr_list", "cfr"),
       related_rins                |-> extract_related_rins(e),
       timetable_all               |-> tts,
       latest_action_date_in_issue |-> latest.iso,
       latest_action_in_issue      |-> latest.action,
       title                       |-> collect_scalar_leaves(e, "title"),
       stage                       |-> collect_scalar_leaves(e, "stage"),
       abstract                    |-> collect_scalar_leaves(e, "abstract")]

\* load_all_xml, "Normalize id columns": digits only, rin stripped
NormalizeIds(rec) ==
  [rec EXCEPT !.publication_id = StripNonDigits(rec.publication_id),
              !.rin            = t(rec.rin)]

----------------------------------------------------------------------------
(* Entities: RIN_INFO elements as the UA files hold them *)

Root == <<Node("RIN_INFO", None, 0)>>

RinLeaf(x) == <<Node("RIN", x, 1)>>

Publication(id) ==
  <<Node("PUBLICATION", None, 1), Node("PUBLICATION_ID", id, 2),
    Node("PUBLICATION_TITLE", "Fall", 2)>>

Agency(name) ==
  <<Node("AGENCY", None, 1), Node("CODE", "2000", 2), Node("NAME", name, 2)>>

RuleTitle(x) == <<Node("RULE_TITLE", x, 1)>>

RuleStage(x) == <<Node("RULE_STAGE", x, 1)>>

Abstract(x) == <<Node("ABSTRACT", x, 1)>>

RelatedList(rin) ==
  <<Node("RELATED_RIN_LIST", None, 1), Node("RELATED_RIN", None, 2),
    Node("RIN", rin, 3), Node("RIN_RELATION", "Related to", 3)>>

ChildList(rin, title) ==
  <<Node("CHILD_RIN_LIST", None, 1), Node("CHILD_RIN", None, 2),
    Node("RIN", rin, 3), Node("RULE_TITLE", title, 3)>>

ContactList ==
  <<Node("AGENCY_CONTACT_LIST", None, 1), Node("CONTACT", None, 2),
    Node("TITLE", "Director", 3), Node("AGENCY", None, 3), Node("NAME", "OAR", 4)>>

\* an XML comment among the children of the entity
Comment(x) == <<Node(CommentTag, x, 1)>>

\* a TIMETABLE item with the TTBL_ACTION/TTBL_DATE children of the UA files
Timetable(action, date) ==
  <<Node("TIMETABLE", None, 2), Node("TTBL_ACTION", action, 3),
    Node("TTBL_DATE", date, 3)>>

\* a TIMETABLE item with the older ACTION/DATE children, which
\* extract_timetable also reads
TimetableOld(action, date) ==
  <<Node("TIMETABLE", None, 2), Node("ACTION", action, 3), Node("DATE", date, 3)>>

TimetableList(items) == <<Node("TIMETABLE_LIST", None, 1)>> \o items

----------------------------------------------------------------------------
(* UA_COMPILER_8_21_25.py: build_last *)

\* to_int_ym(ym)
to_int_ym(ym) == IF Len(ym) = 6 /\ isdigit(ym) THEN IntOf(ym) ELSE -1

\* order of the rin strings used
RinRank(s) ==
  CASE s = "" -> 0 [] s = "R1" -> 1 [] s = "R2" -> 2 [] s = "R3" -> 3 [] OTHER -> 4

\* str(x) of a cell: NaN prints as "nan"
str(x) == IF x = NaN THEN "nan" ELSE x

\* the columns build_last backfills: every column outside non_bf
backfill_cols ==
  {"publication_title", "agency_name", "agency_code", "agency",
   "parent_agency_name", "title", "stage", "abstract"}

\* a build_last whose window has no upper end
WindowRowsNoUpper(df_rows, start_ym, end_ym) ==
  LET inWin(r) == StrLeq(Chars(start_ym), r.publication_id)
  IN  IF start_ym \notin {None, ""} /\ end_ym \notin {None, ""}
        THEN SelectSeq(df_rows, inWin)
        ELSE df_rows

\* the rows build_last works on: the window is applied only when both
\* start_ym and end_ym are given (None or "" is false)
WindowRows(df_rows, start_ym, end_ym) ==
  LET inWin(r) == /\ StrLeq(Chars(start_ym), r.publication_id)
                  /\ StrLeq(r.publication_id, Chars(end_ym))
  IN  IF start_ym \notin {None, ""} /\ end_ym \notin {None, ""}
        THEN SelectSeq(df_rows, inWin)
        ELSE df_rows

\* rows["pub_int"] = rows["publication_id"].apply(to_int_ym)
WithPubInt(r) == r @@ [pub_int |-> to_int_ym(r.publication_id)]

\* key order of rows.sort_values(["rin", "pub_int", "publication_id"])
RowKeyLess(a, b) ==
  \/ RinRank(a.rin) < RinRank(b.rin)
  \/ /\ a.rin = b.rin
     /\ \/ a.pub_int < b.pub_int
        \/ /\ a.pub_int = b.pub_int
           /\ StrLess(a.publication_id, b.publication_id)

\* a build_last that takes the first row of each rin as the current one
idxFirstOfRin(rows, rin) ==
  LET grp == {k \in 1..Len(rows) : rows[k].rin = rin}
  IN  CHOOSE k \in grp : \A j \in grp : k <= j

\* rows.groupby("rin")["pub_int"].idxmax(): in the sorted rows, the first
\* position holding the largest pub_int of that rin
idxmax(rows, rin) ==
  LET grp  == {k \in 1..Len(rows) : rows[k].rin = rin}
      best == {k \in grp : \A j \in grp : rows[j].pub_int <= rows[k].pub_int}
  IN  CHOOSE k \in best : \A j \in best : k <= j

\* g.sort_values("pub_int"): positions of the group ordered by pub_int; the
\* default sort is not stable, so rows of equal pub_int come in an order the
\* code does not fix, here the one given by tie
GroupSorted(rows, rin, tie) ==
  LET isIn(k)    == rows[k].rin = rin
      g          == SelectSeq(Indices(Len(rows)), isIn)
      less(a, b) == \/ rows[a].pub_int < rows[b].pub_int
                    \/ /\ rows[a].pub_int = rows[b].pub_int
                       /\ tie[a] < tie[b]
  IN  StableSort(g, less)

\* g2[backfill_cols].ffill().iloc[-1] on column c: ffill fills NaN cells
\* only (an empty string is a value), so the last row gets the last cell
\* of the column that is not NaN
ffill_last(rows, g2, c) ==
  LET valid == {i \in 1..Len(g2) : rows[g2[i]][c] # NaN}
  IN  IF valid = {} THEN NaN
      ELSE rows[g2[CHOOSE i \in valid : \A j \in valid : j <= i]][c]

\* a backfill that forward-fills over the whole table, not per rin
BackfilledCellUngrouped(rows, g2, c) ==
  LET last  == rows[g2[Len(g2)]]
      valid == {k \in 1..g2[Len(g2)] : rows[k][c] \notin {NaN, ""}}
  IN  IF t(str(last[c])) = "" /\ valid # {}
        THEN rows[CHOOSE k \in valid : \A j \in valid : j <= k][c]
        ELSE last[c]

\* the backfilled scalar of column c, g2 the sorted group (the loop body)
BackfilledCell(rows, g2, c) ==
  LET last == rows[g2[Len(g2)]]
  IN  IF t(str(last[c])) = "" THEN ffill_last(rows, g2, c) ELSE last[c]

\* one record of build_last's result
LastRecord(rows, rin, tie) ==
  LET lr     == rows[idxmax(rows, rin)]
      g2     == GroupSorted(rows, rin, tie)
      bf(c)  == BackfilledCell(rows, g2, c)
  IN  [rin                           |-> rin,
       publication_id                |-> lr.publication_id,
       pub_season                    |-> lr.pub_season,
       source_xml                    |-> lr.source_xml,
       cfr_list                      |-> lr.cfr_list,
       related_rins                  |-> lr.related_rins,
       timetable_all                 |-> lr.timetable_all,
       latest_action_in_issue        |-> lr.latest_action_in_issue,
       latest_action_date_in_issue   |-> lr.latest_action_date_in_issue,
       publication_title             |-> bf("publication_title"),
       agency_name                   |-> bf("agency_name"),
       agency_code                   |-> bf("agency_code"),
       agency                        |-> bf("agency"),
       parent_agency_name            |-> bf("parent_agency_name"),
       title                         |-> bf("title"),
       stage                         |-> bf("stage"),
       abstract                      |-> bf("abstract"),
       timetable_all_last_issue      |-> lr.timetable_all,
       latest_action_last_issue      |-> lr.latest_action_in_issue,
       latest_action_date_last_issue |-> lr.latest_action_date_in_issue,
       last_pub_ym                   |-> lr.publication_id,
       source_xml_of_last            |-> lr.source_xml]

\* build_last(df_rows, df_tt, start_ym, end_ym): the result, one record per
\* rin of the rows considered (no record at all when there is no row)
build_last(df_rows, start_ym, end_ym, tie) ==
  LET win  == WindowRows(df_rows, start_ym, end_ym)
      rows == StableSort([k \in 1..Len(win) |-> WithPubInt(win[k])], RowKeyLess)
      rins == {rows[k].rin : k \in 1..Len(rows)}
  IN  [r \in rins |-> LastRecord(rows, r, tie)]

----------------------------------------------------------------------------
(* State *)

VARIABLES
  it_file,   \* iter_rin_records: the file being streamed (xml_path)
  it_doc,    \* the RIN_INFO elements iterparse has ended so far, in order
  it_rows,   \* load_all_xml: all_rows, the records yielded so far
  it_src,    \* for each record of it_rows, the position in it_doc of its entity
  it_pc,     \* "parsing", "loaded" (ids normalized) or "failed" (0 rows)
  it_attached, \* positions in it_doc of the elements still in the document tree
  bl_fidx,   \* load_all_xml: position in the sorted file list
  bl_rows,   \* all_rows, then df_rows once loaded
  bl_call,   \* the arguments of the last build_last call
  bl_result, \* what that call returned: rin -> record
  bl_pc,     \* "loading", "loaded", "failed"
  rn_files,  \* Runner main: xml_paths, what list_xmls returned
  rn_fidx,   \* position in xml_paths
  rn_cur,    \* build_ua_csv_from_xml: rows of the file being parsed
  rn_dfs,    \* dfs: one table per parsed file
  rn_all,    \* df_all
  rn_last,   \* df_last_only: RIN -> row
  rn_pc,     \* "files", "done", "failed"
  rn_lxml,   \* _HAVE_LXML of the single-XML parser
  rn_ents,   \* _iter_rin_infos: the RIN_INFO elements of the file yielded so far
  rn_attached, \* positions in rn_ents of the elements still in the document tree
  rn_log,    \* what main printed per file: parsed with its row count, or skipped
  dt_in,     \* a timetable or deadline date string, by its shape
  dt_partial, \* _parse_partial_date of it
  dt_single, \* _parse_tt_date of it (single-XML parser)
  dt_comp,   \* parse_tt_date of it (compiler)
  pt_val,    \* reginfo_patch: the text of a field, None included
  pt_ent,    \* reginfo_patch: a RIN_INFO element
  pt_tri,    \* _normalize_tri_state of pt_val
  pt_phone,  \* _normalize_phone of pt_val
  pt_rin,    \* _parse_rin_info of pt_ent
  st_top,    \* streaming pass: a comment stands before the root element
  st_self,   \* "list": the root holds the entities; else the root is the RIN_INFO
  st_at,     \* where el is: "none", "root", "child" of the root, "item" of a group
  st_prev,   \* children of the root before the current one, still in the tree
  st_cur,    \* the current child of the root, if any
  st_rest,   \* children of the root iterparse has not read yet
  st_gprev,  \* children of the current group before the current one, still in the tree
  st_gcur,   \* the current child of the current group, if any
  st_grest,  \* children of the current group not read yet
  st_ran,    \* the memory-release loops that deleted a sibling
  st_pc      \* "next", "yielded", "yield_loop", "skip_loop", "done", "raised"

iterVars == <<it_file, it_doc, it_rows, it_src, it_pc, it_attached>>

lastVars == <<bl_fidx, bl_rows, bl_call, bl_result, bl_pc>>

runVars ==
  <<rn_files, rn_fidx, rn_cur, rn_dfs, rn_all, rn_last, rn_pc, rn_lxml, rn_ents,
    rn_attached, rn_log>>

dateVars == <<dt_in, dt_partial, dt_single, dt_comp>>

patchVars == <<pt_val, pt_ent, pt_tri, pt_phone, pt_rin>>

streamVars ==
  <<st_top, st_self, st_at, st_prev, st_cur, st_rest, st_gprev, st_gcur, st_grest,
    st_ran, st_pc>>

extVars == <<patchVars, streamVars>>

vars == <<iterVars, lastVars, runVars, dateVars, extVars>>

\* a component that is not running
IterIdle ==
  /\ it_file = "" /\ it_doc = <<>> /\ it_rows = <<>> /\ it_src = <<>> /\ it_pc = "idle"
  /\ it_attached = {}

LastIdle ==
  /\ bl_fidx = 0 /\ bl_rows = <<>> /\ bl_call = <<>> /\ bl_result = <<>> /\ bl_pc = "idle"

RunIdle ==
  /\ rn_files = <<>> /\ rn_fidx = 0 /\ rn_cur = <<>> /\ rn_dfs = <<>>
  /\ rn_all = <<>> /\ rn_last = <<>> /\ rn_pc = "idle"
  /\ rn_lxml = TRUE /\ rn_ents = <<>> /\ rn_attached = {} /\ rn_log = <<>>

DateIdle ==
  /\ dt_in = "idle" /\ dt_partial = "idle" /\ dt_single = "idle" /\ dt_comp = "idle"

PatchIdle ==
  /\ pt_val = "idle" /\ pt_ent = <<>> /\ pt_tri = "idle" /\ pt_phone = "idle"
  /\ pt_rin = "idle"

StreamIdle ==
  /\ st_top = FALSE /\ st_self = "idle" /\ st_at = "none" /\ st_prev = <<>>
  /\ st_cur = <<>> /\ st_rest = <<>> /\ st_gprev = <<>> /\ st_gcur = <<>>
  /\ st_grest = <<>> /\ st_ran = {} /\ st_pc = "idle"

ExtIdle == PatchIdle /\ StreamIdle

----------------------------------------------------------------------------
(* SpecIter: one file streamed by iter_rin_records inside load_all_xml *)

MaxEnts == 2

\* the files load_all_xml lists: names matching REGINFO_RIN_DATA_\d{6}\.xml$
UaFiles == {"REGINFO_RIN_DATA_199510.xml", "REGINFO_RIN_DATA_201810.xml"}

Base == Publication("199510") \o RuleTitle("T1")

IterEntities ==
  { \* identity
    Root \o RinLeaf("R1") \o Base,
    Root \o RinLeaf(" R1 ") \o Base,
    Root \o Base,
    Root \o RinLeaf(None) \o Base,
    Root \o Base \o RelatedList("R2"),
    Root \o RelatedList("R2") \o RinLeaf("R1") \o Base,
    Root \o RinLeaf("R1") \o Base \o RelatedList("R2"),
    Root \o RelatedList(None) \o RinLeaf("R1") \o Base,
    \* publication
    Root \o RinLeaf("R1") \o RuleTitle("T1"),
    Root \o RinLeaf("R1") \o Publication("1995-10"),
    Root \o RinLeaf("R1") \o Publication("1995"),
    Root \o RinLeaf("R1") \o Publication(None),
    Root \o RinLeaf("R2") \o Publication("201810") \o Agency("EPA "),
    \* titles
    Root \o RinLeaf("R1") \o Base \o RuleStage("Final Rule") \o ChildList("R3", "T2"),
    Root \o RinLeaf("R1") \o Publication("199510") \o ContactList,
    Root \o RinLeaf("R1") \o Base \o ContactList \o Abstract("A1"),
    \* timetables
    Root \o RinLeaf("R1") \o Base \o TimetableList(<<>>),
    Root \o RinLeaf("R1") \o Base \o TimetableList(Timetable("NPRM", "10/01/1995")),
    Root \o RinLeaf("R1") \o Base \o TimetableList(TimetableOld("NPRM", "To Be Determined")),
    Root \o RinLeaf("R1") \o Base
      \o TimetableList(TimetableOld("Proposed", "01/01/1996") \o TimetableOld("Final", "01/01/1996")),
    Root \o RinLeaf("R1") \o Base
      \o TimetableList(TimetableOld("NPRM", "10/01/1995") \o TimetableOld("Final", "TBD")),
    Root \o RinLeaf("R1") \o Base
      \o TimetableList(TimetableOld("Final", "04/00/1996") \o TimetableOld("NPRM", "13/01/1996")),
    \* comments
    Root \o RinLeaf("R3") \o Base \o Comment("reviewed"),
    Root \o Comment("withdrawn") \o Base }

IterInit ==
  /\ it_file \in UaFiles
  /\ it_doc = <<>>
  /\ it_rows = <<>>
  /\ it_src = <<>>
  /\ it_pc = "parsing"
  /\ it_attached = {}
  /\ LastIdle
  /\ RunIdle
  /\ DateIdle
  /\ ExtIdle

\* iter_rin_records after `yield rec`, when the generator is resumed:
\* el.clear() empties the element and leaves it in its parent; the loop then
\* walks the previous siblings of the parent. The RIN_INFO elements are the
\* children of the root element, which has no previous sibling element and
\* no parent to delete from, so no element leaves the tree.
yield_cleanup(attached, i) == attached

\* iter_rin_records, `if not rin`: el.clear(), then every previous sibling
\* of el is deleted from the parent; el itself stays
skip_cleanup(attached, i) == {i}

\* the tree once the generator has been resumed after the last element: the
\* cleanup after the yield runs only if that element was yielded
Resumed(doc, src, attached) ==
  IF src # <<>> /\ src[Len(src)] = Len(doc)
    THEN yield_cleanup(attached, Len(doc))
    ELSE attached

\* iter_rin_records, an entity with an identity: the record is yielded and
\* load_all_xml appends it to all_rows
IterYield ==
  \E e \in IterEntities :
    /\ it_pc = "parsing"
    /\ Len(it_doc) < MaxEnts
    /\ ~iter_raises(e)
    /\ Yields(e)
    /\ it_doc' = Append(it_doc, e)
    /\ it_rows' = Append(it_rows, iter_rin_records(e, it_file))
    /\ it_src' = Append(it_src, Len(it_doc) + 1)
    /\ it_attached' = Resumed(it_doc, it_src, it_attached) \cup {Len(it_doc) + 1}
    /\ UNCHANGED <<it_file, it_pc, lastVars, runVars, dateVars, extVars>>

\* iter_rin_records, `if not rin`: the entity is cleared and skipped
IterSkip ==
  \E e \in IterEntities :
    /\ it_pc = "parsing"
    /\ Len(it_doc) < MaxEnts
    /\ ~iter_raises(e)
    /\ ~Yields(e)
    /\ it_doc' = Append(it_doc, e)
    /\ it_attached' = skip_cleanup(Resumed(it_doc, it_src, it_attached), Len(it_doc) + 1)
    /\ UNCHANGED <<it_file, it_rows, it_src, it_pc, lastVars, runVars, dateVars, extVars>>

\* iter_rin_records raises inside an entity: the exception leaves the
\* generator and load_all_xml's `except Exception` prints the warning and
\* goes on; all_rows keeps what was appended
IterRaise ==
  \E e \in IterEntities :
    /\ it_pc = "parsing"
    /\ Len(it_doc) < MaxEnts
    /\ iter_raises(e)
    /\ it_doc' = Append(it_doc, e)
    /\ it_attached' = Resumed(it_doc, it_src, it_attached) \cup {Len(it_doc) + 1}
    /\ it_pc' = "raised"
    /\ UNCHANGED <<it_file, it_rows, it_src, lastVars, runVars, dateVars, extVars>>

\* load_all_xml after the loop: RuntimeError on 0 rows, else the id columns
\* are normalized
IterLoaded ==
  /\ it_pc \in {"parsing", "raised"}
  /\ IF it_rows = <<>>
       THEN /\ it_pc' = "failed"
            /\ UNCHANGED it_rows
       ELSE /\ it_pc' = "loaded"
            /\ it_rows' = [k \in 1..Len(it_rows) |-> NormalizeIds(it_rows[k])]
  /\ it_attached' = IF it_pc = "raised" THEN it_attached
                    ELSE Resumed(it_doc, it_src, it_attached)
  /\ UNCHANGED <<it_file, it_doc, it_src, lastVars, runVars, dateVars, extVars>>

IterNext == IterYield \/ IterSkip \/ IterRaise \/ IterLoaded

SpecIter == IterInit /\ [][IterNext]_vars

----------------------------------------------------------------------------
(* Claims on iter_rin_records (SpecIter) *)

\* the text of the entity's own (immediate) child of that name, "" if it has
\* none: the designated child the claims speak of
OwnText(e, name_lower) ==
  LET named(j) == lower(localname(e[j].tag)) = name_lower
      cs       == SelectSeq(ChildrenOf(e, 1), named)
  IN  IF cs = <<>> THEN "" ELSE t(e[cs[1]].text)

\* the text of the PUBLICATION_ID child of the entity's own PUBLICATION child
OwnPublicationId(e) ==
  LET isPub(j) == lower(localname(e[j].tag)) = "publication"
      ps       == SelectSeq(ChildrenOf(e, 1), isPub)
      isId(j)  == lower(localname(e[j].tag)) = "publication_id"
      ids      == IF ps = <<>> THEN <<>> ELSE SelectSeq(ChildrenOf(e, ps[1]), isId)
  IN  IF ids = <<>> THEN "" ELSE t(e[ids[1]].text)

OrNaN(x) == IF x = "" THEN NaN ELSE x

SixDigits(cs) == Len(cs) = 6 /\ isdigit(cs)

\* C4: iter_rin_records yields, in document order, exactly one record for
\* each entity whose own RIN child is non-empty and nothing for an entity
\* whose own RIN child is absent or empty; no yielded record has an empty rin.
C4_YieldsExactlyOwnIdentities ==
  LET hasOwn(i) == OwnText(it_doc[i], "rin") # ""
  IN  /\ it_src = SelectSeq(Indices(Len(it_doc)), hasOwn)
      /\ \A k \in 1..Len(it_rows) : it_rows[k].rin # ""

\* C8: if no timetable item of the entity has a non-empty normalized date,
\* latest_action_in_issue and latest_action_date_in_issue are both empty.
C8_NoDateNoLatest ==
  \A k \in 1..Len(it_rows) :
    LET tts == it_rows[k].timetable_all
    IN  (\A i \in 1..Len(tts) : tts[i].date_iso = <<>>)
          => /\ it_rows[k].latest_action_in_issue = ""
             /\ it_rows[k].latest_action_date_in_issue = <<>>

\* C9: the record's rin, title and stage are those of the entity's own RIN,
\* RULE_TITLE and RULE_STAGE children, never those of an element nested in
\* RELATED_RIN_LIST, CHILD_RIN_LIST or a contact block.
C9_TopLevelLookupsOnly ==
  \A k \in 1..Len(it_rows) :
    LET e == it_doc[it_src[k]]
    IN  /\ it_rows[k].rin = OwnText(e, "rin")
        /\ it_rows[k].title = OrNaN(OwnText(e, "rule_title"))
        /\ it_rows[k].stage = OrNaN(OwnText(e, "rule_stage"))

\* C10: after load_all_xml every publication_id is six digits or empty: the
\* embedded PUBLICATION_ID when it is a six-digit token, the six digits of
\* the file name when there is no embedded id.
C10_PublicationIdSixDigitsOrEmpty ==
  it_pc = "loaded" =>
    \A k \in 1..Len(it_rows) :
      LET emb == OwnPublicationId(it_doc[it_src[k]])
          pid == it_rows[k].publication_id
      IN  /\ pid = <<>> \/ SixDigits(pid)
          /\ SixDigits(Chars(emb)) => pid = Chars(emb)
          /\ emb = "" => pid = Chars(to_pub_ym_from_file(it_file))

----------------------------------------------------------------------------
(* SpecLast: load_all_xml over the sorted files, then build_last *)

MaxRows == 3

\* sorted(...) of the directory listing
LastFiles == <<"REGINFO_RIN_DATA_199510.xml", "REGINFO_RIN_DATA_201810.xml">>

LastEntities ==
  { \* the 1995 issue of R1: agency EPA, a proposed rule
    Root \o RinLeaf("R1") \o Publication("199510") \o Agency("EPA") \o Abstract("A1")
      \o TimetableList(TimetableOld("Proposed", "10/01/1995")),
    \* a later issue of R1 without agency block: its name is the empty string
    Root \o RinLeaf("R1") \o Publication("201810") \o RuleTitle("T1")
      \o TimetableList(TimetableOld("Final", "10/01/2018")),
    \* an issue without PUBLICATION: the id comes from the file name
    Root \o RinLeaf("R1") \o Agency("DOT") \o RuleTitle("T2"),
    \* an issue whose embedded id is not a six-digit token
    Root \o RinLeaf("R1") \o Publication("1995") \o Agency("DOT"),
    \* another identity
    Root \o RinLeaf("R2") \o Publication("201810") \o Abstract("A2")
      \o TimetableList(TimetableOld("NPRM", "10/2018")) }

\* the windows build_last is called with: none, the CK window, an earlier
\* window, and an upper bound alone
LastStarts == {None, "199510"}

LastEnds == {None, "199512", "201904"}

\* orders in which rows of equal pub_int may leave the unstable sort: the
\* rotations of the sorted order, under which each of them can come last
TieOrders(n) ==
  IF n = 0 THEN {<<>>} ELSE {[i \in 1..n |-> ((i + k) % n) + 1] : k \in 1..n}

LastInit ==
  /\ bl_fidx = 1
  /\ bl_rows = <<>>
  /\ bl_call = <<>>
  /\ bl_result = <<>>
  /\ bl_pc = "loading"
  /\ IterIdle
  /\ RunIdle
  /\ DateIdle
  /\ ExtIdle

\* load_all_xml: iter_rin_records yields a record of the current file
LastLoadRecord ==
  \E e \in LastEntities :
    /\ bl_pc = "loading"
    /\ Len(bl_rows) < MaxRows
    /\ Yields(e)
    /\ bl_rows' = Append(bl_rows, iter_rin_records(e, LastFiles[bl_fidx]))
    /\ UNCHANGED <<bl_fidx, bl_call, bl_result, bl_pc, iterVars, runVars, dateVars, extVars>>

\* load_all_xml: the next file of the listing
LastNextFile ==
  /\ bl_pc = "loading"
  /\ bl_fidx < Len(LastFiles)
  /\ bl_fidx' = bl_fidx + 1
  /\ UNCHANGED <<bl_rows, bl_call, bl_result, bl_pc, iterVars, runVars, dateVars, extVars>>

\* load_all_xml after the loop: RuntimeError on 0 rows, else df_rows with
\* the id columns normalized
LastLoaded ==
  /\ bl_pc = "loading"
  /\ IF bl_rows = <<>>
       THEN /\ bl_pc' = "failed"
            /\ UNCHANGED bl_rows
       ELSE /\ bl_pc' = "loaded"
            /\ bl_rows' = [k \in 1..Len(bl_rows) |-> NormalizeIds(bl_rows[k])]
  /\ UNCHANGED <<bl_fidx, bl_call, bl_result, iterVars, runVars, dateVars, extVars>>

\* a call build_last(df_rows, df_tt, start_ym, end_ym)
BuildLast ==
  \E start_ym \in LastStarts, end_ym \in LastEnds, tie \in TieOrders(Len(bl_rows)) :
    /\ bl_pc = "loaded"
    /\ bl_call = <<>>
    /\ bl_call' = [start_ym |-> start_ym, end_ym |-> end_ym]
    /\ bl_result' = build_last(bl_rows, start_ym, end_ym, tie)
    /\ UNCHANGED <<bl_fidx, bl_rows, bl_pc, iterVars, runVars, dateVars, extVars>>

LastNext == LastLoadRecord \/ LastNextFile \/ LastLoaded \/ BuildLast

SpecLast == LastInit /\ [][LastNext]_vars


----------------------------------------------------------------------------
(* Claims on build_last (SpecLast) *)

Called == bl_call # <<>>

\* the rows the call considered
Considered == WindowRows(bl_rows, bl_call.start_ym, bl_call.end_ym)

RowsOf(rows, rin) == {k \in 1..Len(rows) : rows[k].rin = rin}

PubInt(r) == to_int_ym(r.publication_id)

\* the rows of rin with the largest snapshot rank
MaxRowsOf(rows, rin) ==
  {k \in RowsOf(rows, rin) : \A j \in RowsOf(rows, rin) : PubInt(rows[j]) <= PubInt(rows[k])}

EmptyCell(v) == v \in {"", NaN, None}

\* the earlier snapshots of rin that have a value in column c, most recent first
EarlierWith(rows, rin, m, c) ==
  {k \in RowsOf(rows, rin) : PubInt(rows[k]) < PubInt(rows[m]) /\ ~EmptyCell(rows[k][c])}

MostRecentOf(rows, S) == {k \in S : \A j \in S : PubInt(rows[j]) <= PubInt(rows[k])}

\* C1: in build_last, for each identity and each backfillable scalar column,
\* if the value of the identity's maximum-snapshot row is empty and an earlier
\* snapshot of the identity has a non-empty value, the output record carries
\* the value of the most recent such snapshot.
C1_BackfillFromEarlierSnapshot ==
  Called =>
    \A rin \in DOMAIN bl_result : \A c \in backfill_cols :
      \A m \in MaxRowsOf(Considered, rin) :
        LET cand == EarlierWith(Considered, rin, m, c)
        IN  (EmptyCell(Considered[m][c]) /\ cand # {})
              => bl_result[rin][c] \in
                   {Considered[k][c] : k \in MostRecentOf(Considered, cand)}

\* the case of C1: agency_name "EPA" at 199510, empty at 201810, all rows used
C1_Case ==
  /\ Called
  /\ bl_call.start_ym = None /\ bl_call.end_ym = None
  /\ Len(bl_rows) = 2
  /\ bl_rows[1].rin = "R1" /\ bl_rows[2].rin = "R1"
  /\ bl_rows[1].publication_id = Chars("199510") /\ bl_rows[1].agency_name = "EPA"
  /\ bl_rows[2].publication_id = Chars("201810") /\ bl_rows[2].agency_name = ""

\* what the code returns in the case of C1: the empty agency_name stays
C1_EmptyStays == C1_Case => bl_result["R1"].agency_name = ""

ListAndLatestCols ==
  {"cfr_list", "related_rins", "timetable_all", "latest_action_in_issue",
   "latest_action_date_in_issue"}

\* C2: in build_last, for every identity, the list-valued columns and
\* timetable_all_last_issue, latest_action_last_issue and
\* latest_action_date_last_issue of the output record are those of one
\* maximum-snapshot row of the identity, and of no other snapshot.
C2_ListsFromMaxSnapshotOnly ==
  Called =>
    \A rin \in DOMAIN bl_result :
      \E m \in MaxRowsOf(Considered, rin) :
        LET cur == Considered[m]
            out == bl_result[rin]
        IN  /\ \A c \in ListAndLatestCols : out[c] = cur[c]
            /\ out.timetable_all_last_issue = cur.timetable_all
            /\ out.latest_action_last_issue = cur.latest_action_in_issue
            /\ out.latest_action_date_last_issue = cur.latest_action_date_in_issue
            /\ out.last_pub_ym = cur.publication_id

\* C2 witness: R1 has a 1995 snapshot with a "Proposed" event and a 2018
\* snapshot with a "Final" event, and the output shows "Final" alone
C2_Witness ==
  /\ Called
  /\ "R1" \in DOMAIN bl_result
  /\ \E k \in RowsOf(Considered, "R1") :
       /\ Considered[k].latest_action_in_issue = "Proposed"
       /\ Len(Considered[k].timetable_all) = 1
  /\ bl_result["R1"].latest_action_last_issue = "Final"
  /\ Len(bl_result["R1"].timetable_all_last_issue) = 1
  /\ bl_result["R1"].last_pub_ym = Chars("201810")

\* the rows of df_rows whose snapshot id does not exceed B (compared as the
\* filter compares them, as strings)
UpTo(df_rows, B) ==
  LET ok(r) == StrLeq(r.publication_id, Chars(B))
  IN  SelectSeq(df_rows, ok)

\* the rows above B leave the result unchanged: the call on the rows up to
\* B alone gives the same records
NoRowAboveContributes(B) ==
  /\ \E tie \in TieOrders(Len(UpTo(bl_rows, B))) :
       bl_result = build_last(UpTo(bl_rows, B), bl_call.start_ym, bl_call.end_ym, tie)
  /\ \A rin \in DOMAIN bl_result :
       /\ StrLeq(bl_result[rin].last_pub_ym, Chars(B))
       /\ \E k \in RowsOf(UpTo(bl_rows, B), rin) :
            /\ bl_result[rin].latest_action_last_issue
                 = UpTo(bl_rows, B)[k].latest_action_in_issue
            /\ bl_result[rin].latest_action_date_last_issue
                 = UpTo(bl_rows, B)[k].latest_action_date_in_issue

\* C3 as stated: when build_last is called with an upper bound B, with or
\* without a lower bound, no row whose snapshot id exceeds B contributes to
\* any output record.
C3_UpperBoundAlone ==
  (Called /\ bl_call.end_ym # None) => NoRowAboveContributes(bl_call.end_ym)

\* C3: when build_last is called with both a lower bound and an upper bound
\* B, no row whose snapshot id exceeds B contributes to any output record:
\* the output of an identity shows the latest event of its latest snapshot up
\* to B.
C3_WindowUpperBound ==
  (Called /\ bl_call.start_ym # None /\ bl_call.end_ym # None)
    => NoRowAboveContributes(bl_call.end_ym)

\* C3 witness: the window 199510..199512 over a 1995 "Proposed" snapshot and
\* a 2018 "Final" snapshot of R1 gives "Proposed"
C3_Witness ==
  /\ Called
  /\ bl_call.start_ym = "199510" /\ bl_call.end_ym = "199512"
  /\ \E k \in RowsOf(bl_rows, "R1") :
       /\ bl_rows[k].publication_id = Chars("201810")
       /\ bl_rows[k].latest_action_in_issue = "Final"
  /\ "R1" \in DOMAIN bl_result
  /\ bl_result["R1"].latest_action_last_issue = "Proposed"
  /\ bl_result["R1"].last_pub_ym = Chars("199510")


----------------------------------------------------------------------------
(* UA_Parser_For_Single_xml_9_12_25.py *)

\* _t(x) = (x or "").strip()
_t(x) == t(x)

\* _lname(tag) = tag.split("}")[-1]
_lname(tag) == IF tag = None THEN "" ELSE localname(tag)

\* _child(elem, name): the first direct child of that local name (as
\* written, case included), 0 for None
_child(e, i, name) ==
  LET hit == {j \in 1..Len(e) : /\ i < j /\ j <= SubtreeEnd(e, i)
                                /\ e[j].d = e[i].d + 1
                                /\ _lname(e[j].tag) = name}
  IN  IF hit = {} THEN 0 ELSE CHOOSE j \in hit : \A k \in hit : j <= k

\* _children(elem, name)
_children(e, i, name) ==
  LET isNamed(j) == _lname(e[j].tag) = name IN SelectSeq(ChildrenOf(e, i), isNamed)

\* _text_child(elem, name)
_text_child(e, i, name) ==
  LET c == _child(e, i, name) IN IF c # 0 THEN _t(e[c].text) ELSE ""

\* a parser that leaves the column of an absent group unset
_text_child_unguarded(e, i, name) == IF i # 0 THEN _text_child(e, i, name) ELSE None

\* _text_child(x, name) if x is not None else ""
_text_child_of(e, i, name) == IF i # 0 THEN _text_child(e, i, name) ELSE ""

\* _parse_tt_date on the shape of the stripped raw date; the strptime
\* fallback accepts no string that the three patterns reject
_parse_tt_date_shape(sh) ==
  IF sh.k \in {"none", "empty", "tobe"} THEN <<>>
  ELSE IF sh.k \in {"mdy", "mdy1"}
    THEN IF 1 <= sh.m /\ sh.m <= 12
           THEN <<sh.y, sh.m, IF sh.d = 0 THEN 1 ELSE sh.d>>
           ELSE <<>>
  ELSE IF sh.k = "my"
    THEN IF 1 <= sh.m /\ sh.m <= 12 THEN <<sh.y, sh.m, 1>> ELSE <<>>
  ELSE <<>>

\* _parse_tt_date(raw): the ISO date, <<>> for ''
_parse_tt_date(raw) ==
  LET s == _t(raw)
  IN  IF s = "" THEN <<>> ELSE _parse_tt_date_shape(DateShape(s))

\* the stdlib parser drops comments: the tree the fallback build walks
StripComments(e) ==
  LET keep(n) == ~IsComment(n) IN SelectSeq(e, keep)

\* _lname(ch.tag) raises AttributeError on a comment (a function has no
\* split). _child(elem, name) meets one when a comment child comes before
\* the first child of that name
ChildRaises(e, i, name) ==
  \E j \in 1..Len(e) :
    /\ i < j /\ j <= SubtreeEnd(e, i) /\ e[j].d = e[i].d + 1
    /\ IsComment(e[j])
    /\ (_child(e, i, name) = 0 \/ j < _child(e, i, name))

\* _children(elem, name) and `for ch in ri` walk every child
ChildrenRaise(e, i) ==
  \E j \in 1..Len(e) :
    /\ i < j /\ j <= SubtreeEnd(e, i) /\ e[j].d = e[i].d + 1
    /\ IsComment(e[j])

\* str.upper() on the tags of the vocabulary (upper case but for these)
upper(s) ==
  CASE s = "Note" -> "NOTE"
    [] s = "rin"  -> "RIN"
    [] OTHER      -> s

_KNOWN_GROUPS_L1 ==
  {"RIN", "PUBLICATION", "AGENCY", "PARENT_AGENCY",
   "RULE_TITLE", "ABSTRACT", "PRIORITY_CATEGORY", "RIN_STATUS", "RULE_STAGE",
   "MAJOR", "EO_13771_DESIGNATION", "FEDERALISM",
   "UNFUNDED_MANDATE_LIST", "CFR_LIST", "LEGAL_AUTHORITY_LIST", "LEGAL_DLINE_LIST",
   "RPLAN_ENTRY", "RPLAN_INFO", "TIMETABLE_LIST",
   "RFA_REQUIRED", "SMALL_ENTITY_LIST", "GOVT_LEVEL_LIST",
   "PRINT_PAPER", "INTERNATIONAL_INTEREST",
   "RELATED_RIN_LIST", "CHILD_RIN_LIST", "AGENCY_CONTACT_LIST",
   "REINVENT_GOVT", "ADDITIONAL_INFO", "PROCUREMENT", "SIC_DESC", "PARENT_RIN",
   "COMPLIANCE_COST"}

\* the columns _parse_rin_info reads from a group: column -> group, child
GroupColumns ==
  [PUBLICATION_ID        |-> <<"PUBLICATION", "PUBLICATION_ID">>,
   PUBLICATION_TITLE     |-> <<"PUBLICATION", "PUBLICATION_TITLE">>,
   AGENCY_CODE           |-> <<"AGENCY", "CODE">>,
   AGENCY_NAME           |-> <<"AGENCY", "NAME">>,
   AGENCY_ACRONYM        |-> <<"AGENCY", "ACRONYM">>,
   PARENT_AGENCY_CODE    |-> <<"PARENT_AGENCY", "CODE">>,
   PARENT_AGENCY_NAME    |-> <<"PARENT_AGENCY", "NAME">>,
   PARENT_AGENCY_ACRONYM |-> <<"PARENT_AGENCY", "ACRONYM">>,
   RPLAN_INFO_STMT_OF_NEED       |-> <<"RPLAN_INFO", "STMT_OF_NEED">>,
   RPLAN_INFO_LEGAL_BASIS        |-> <<"RPLAN_INFO", "LEGAL_BASIS">>,
   RPLAN_INFO_ALTERNATIVES       |-> <<"RPLAN_INFO", "ALTERNATIVES">>,
   RPLAN_INFO_COSTS_AND_BENEFITS |-> <<"RPLAN_INFO", "COSTS_AND_BENEFITS">>,
   RPLAN_INFO_RISKS              |-> <<"RPLAN_INFO", "RISKS">>,
   COMPLIANCE_COST_BASE_YEAR             |-> <<"COMPLIANCE_COST", "BASE_YEAR">>,
   COMPLIANCE_COST_INITIAL_PUBLIC_COST   |-> <<"COMPLIANCE_COST", "INITIAL_PUBLIC_COST">>,
   COMPLIANCE_COST_RECURRING_PUBLIC_COST |-> <<"COMPLIANCE_COST", "RECURRING_PUBLIC_COST">>]

\* the list columns whose items are texts: column -> item tag
TextListColumns ==
  [UNFUNDED_MANDATE_LIST |-> "UNFUNDED_MANDATE",
   CFR_LIST              |-> "CFR",
   LEGAL_AUTHORITY_LIST  |-> "LEGAL_AUTHORITY",
   SMALL_ENTITY_LIST     |-> "SMALL_ENTITY",
   GOVT_LEVEL_LIST       |-> "GOVT_LEVEL"]

\* the list columns whose items are objects of text children:
\* column -> item tag, the children read
ObjectListColumns ==
  [LEGAL_DLINE_LIST |-> <<"LEGAL_DLINE_INFO",
                          {"DLINE_TYPE", "DLINE_ACTION_STAGE", "DLINE_DATE", "DLINE_DESC"}>>,
   RELATED_RIN_LIST |-> <<"RELATED_RIN", {"RIN", "RIN_RELATION"}>>,
   CHILD_RIN_LIST   |-> <<"CHILD_RIN", {"RIN", "RULE_TITLE"}>>]

\* the columns read as _text_child(ri, column)
ScalarColumns ==
  {"RIN", "RULE_TITLE", "ABSTRACT", "PRIORITY_CATEGORY", "RIN_STATUS", "RULE_STAGE",
   "MAJOR", "EO_13771_DESIGNATION", "FEDERALISM", "RPLAN_ENTRY", "RFA_REQUIRED",
   "PRINT_PAPER", "INTERNATIONAL_INTEREST", "REINVENT_GOVT", "ADDITIONAL_INFO",
   "PROCUREMENT", "SIC_DESC", "PARENT_RIN"}

\* _PREFERRED_ORDER, as the set of its columns
_PREFERRED_ORDER ==
  ScalarColumns \cup DOMAIN GroupColumns \cup DOMAIN TextListColumns
    \cup DOMAIN ObjectListColumns
    \cup {"TIMETABLE_LIST", "Latest_Action", "latest_action_date", "AGENCY_CONTACT_LIST"}

\* a list of texts: [_t(it.text) for it in _children(parent, item)]
_text_list(e, list_tag, item_tag) ==
  LET parent == _child(e, 1, list_tag)
  IN  IF parent = 0 THEN <<>>
      ELSE LET its == _children(e, parent, item_tag)
           IN  [k \in 1..Len(its) |-> _t(e[its[k]].text)]

\* a list of objects of text children
_object_list(e, list_tag, item_tag, fields) ==
  LET parent == _child(e, 1, list_tag)
  IN  IF parent = 0 THEN <<>>
      ELSE LET its == _children(e, parent, item_tag)
           IN  [k \in 1..Len(its) |-> [f \in fields |-> _text_child(e, its[k], f)]]

\* key of with_iso.sort(key=lambda x: x["TTBL_DATE_ISO"])
IsoKeyLess(a, b) == IsoLess(a.TTBL_DATE_ISO, b.TTBL_DATE_ISO)

\* a parser that sorts tt_list itself, not a copy, when it derives the latest
_tt_list_sorted(e) ==
  LET tt_parent == _child(e, 1, "TIMETABLE_LIST")
      item(tt)  == [TTBL_ACTION   |-> _text_child(e, tt, "TTBL_ACTION"),
                    TTBL_DATE     |-> _text_child(e, tt, "TTBL_DATE"),
                    TTBL_DATE_ISO |-> _parse_tt_date(_text_child(e, tt, "TTBL_DATE")),
                    FR_CITATION   |-> _text_child(e, tt, "FR_CITATION")]
  IN  IF tt_parent = 0 THEN <<>>
      ELSE LET tts == _children(e, tt_parent, "TIMETABLE")
           IN  StableSort([k \in 1..Len(tts) |-> item(tts[k])], IsoKeyLess)

\* the timetable items _parse_rin_info collects
_tt_list(e) ==
  LET tt_parent == _child(e, 1, "TIMETABLE_LIST")
      item(tt)  == [TTBL_ACTION   |-> _text_child(e, tt, "TTBL_ACTION"),
                    TTBL_DATE     |-> _text_child(e, tt, "TTBL_DATE"),
                    TTBL_DATE_ISO |-> _parse_tt_date(_text_child(e, tt, "TTBL_DATE")),
                    FR_CITATION   |-> _text_child(e, tt, "FR_CITATION")]
  IN  IF tt_parent = 0 THEN <<>>
      ELSE LET tts == _children(e, tt_parent, "TIMETABLE")
           IN  [k \in 1..Len(tts) |-> item(tts[k])]

ContactFields ==
  {"PREFIX", "FIRST_NAME", "MIDDLE_NAME", "LAST_NAME", "SUFFIX", "TITLE", "PHONE",
   "PHONE_EXT", "TDD_PHONE", "FAX", "EMAIL"}

\* the contacts: AGENCY and MAILING_ADDRESS are keys only when present
_contact_list(e) ==
  LET parent == _child(e, 1, "AGENCY_CONTACT_LIST")
      sub(ct, name, fields) ==
        IF _child(e, ct, name) = 0 THEN <<>>
        ELSE [k \in {name} |-> [f \in fields |-> _text_child(e, _child(e, ct, name), f)]]
      item(ct) ==
        [f \in ContactFields |-> _text_child(e, ct, f)]
          @@ sub(ct, "AGENCY", {"CODE", "NAME", "ACRONYM"})
          @@ sub(ct, "MAILING_ADDRESS", {"STREET_ADDRESS", "CITY", "STATE", "ZIP"})
  IN  IF parent = 0 THEN <<>>
      ELSE LET cts == _children(e, parent, "CONTACT")
           IN  [k \in 1..Len(cts) |-> item(cts[k])]

\* latest of _parse_rin_info: the dated items sorted by date (list.sort is
\* stable), the last one taken
_latest(tt_list) ==
  LET hasIso(it) == it.TTBL_DATE_ISO # <<>>
      with_iso   == StableSort(SelectSeq(tt_list, hasIso), IsoKeyLess)
  IN  IF with_iso = <<>> THEN [iso |-> <<>>, act |-> ""]
      ELSE [iso |-> with_iso[Len(with_iso)].TTBL_DATE_ISO,
            act |-> with_iso[Len(with_iso)].TTBL_ACTION]

\* the value _parse_rin_info gives column c of the superset
_column(e, c) ==
  IF c \in DOMAIN GroupColumns
    THEN _text_child_of(e, _child(e, 1, GroupColumns[c][1]), GroupColumns[c][2])
  ELSE IF c \in DOMAIN TextListColumns THEN _text_list(e, c, TextListColumns[c])
  ELSE IF c \in DOMAIN ObjectListColumns
    THEN _object_list(e, c, ObjectListColumns[c][1], ObjectListColumns[c][2])
  ELSE IF c = "TIMETABLE_LIST" THEN _tt_list(e)
  ELSE IF c = "Latest_Action" THEN _latest(_tt_list(e)).act
  ELSE IF c = "latest_action_date" THEN _latest(_tt_list(e)).iso
  ELSE IF c = "AGENCY_CONTACT_LIST" THEN _contact_list(e)
  ELSE _text_child(e, 1, c)

\* the auto-capture loop: the top-level children that are not known tags
\* and have no child of their own, under the upper-cased tag; a key already
\* in out is left alone, so the first child of a key sets it
_extras(e) ==
  LET cand == {j \in 1..Len(e) : /\ e[j].d = 1
                                 /\ _lname(e[j].tag) \notin _KNOWN_GROUPS_L1
                                 /\ ~HasChild(e, j)
                                 /\ upper(_lname(e[j].tag)) \notin _PREFERRED_ORDER}
      keys == {upper(_lname(e[j].tag)) : j \in cand}
      first(k) == CHOOSE j \in cand :
                    /\ upper(_lname(e[j].tag)) = k
                    /\ \A i \in cand : upper(_lname(e[i].tag)) = k => j <= i
  IN  [k \in keys |-> _t(e[first(k)].text)]

\* _parse_rin_info(ri): the row of one RIN_INFO element
_parse_rin_info(e) == [c \in _PREFERRED_ORDER |-> _column(e, c)] @@ _extras(e)

\* some _text_child(item, f), f among fields, raises for an item of the list
ItemsRaise(e, parent, item_tag, fields) ==
  \E k \in 1..Len(_children(e, parent, item_tag)) : \E f \in fields :
    ChildRaises(e, _children(e, parent, item_tag)[k], f)

\* a sub-group of a contact raises
ContactSubRaises(e, parent, name, fields) ==
  \E k \in 1..Len(_children(e, parent, "CONTACT")) :
    LET g == _child(e, _children(e, parent, "CONTACT")[k], name)
    IN  g # 0 /\ \E f \in fields : ChildRaises(e, g, f)

\* _parse_rin_info raises: a comment among the children one of its loops
\* walks (the children of ri are all walked by the auto-capture loop at the
\* latest)
_parse_rin_info_raises(e) ==
  \/ ChildrenRaise(e, 1)
  \/ \E c \in DOMAIN GroupColumns :
       /\ _child(e, 1, GroupColumns[c][1]) # 0
       /\ ChildRaises(e, _child(e, 1, GroupColumns[c][1]), GroupColumns[c][2])
  \/ \E c \in DOMAIN TextListColumns :
       _child(e, 1, c) # 0 /\ ChildrenRaise(e, _child(e, 1, c))
  \/ \E c \in DOMAIN ObjectListColumns :
       /\ _child(e, 1, c) # 0
       /\ \/ ChildrenRaise(e, _child(e, 1, c))
          \/ ItemsRaise(e, _child(e, 1, c), ObjectListColumns[c][1], ObjectListColumns[c][2])
  \/ LET p == _child(e, 1, "TIMETABLE_LIST")
     IN  /\ p # 0
         /\ \/ ChildrenRaise(e, p)
            \/ ItemsRaise(e, p, "TIMETABLE", {"TTBL_ACTION", "TTBL_DATE", "FR_CITATION"})
  \/ LET p == _child(e, 1, "AGENCY_CONTACT_LIST")
     IN  /\ p # 0
         /\ \/ ChildrenRaise(e, p)
            \/ ItemsRaise(e, p, "CONTACT", ContactFields \cup {"AGENCY", "MAILING_ADDRESS"})
            \/ ContactSubRaises(e, p, "AGENCY", {"CODE", "NAME", "ACRONYM"})
            \/ ContactSubRaises(e, p, "MAILING_ADDRESS",
                                {"STREET_ADDRESS", "CITY", "STATE", "ZIP"})

\* pd.DataFrame(rows): the columns are the union of the keys, a key a row
\* lacks is NaN in that row
DataFrame(rows) ==
  LET cols == UNION {DOMAIN rows[k] : k \in 1..Len(rows)}
  IN  [k \in 1..Len(rows) |-> rows[k] @@ [c \in cols \ DOMAIN rows[k] |-> NaN]]

\* build_ua_csv_from_xml: the table of the rows parsed from one file; the
\* columns of the superset a row lacked would be filled with ""
build_ua_csv_from_xml(rows) ==
  LET df == DataFrame(rows)
  IN  [k \in 1..Len(df) |-> df[k] @@ [c \in _PREFERRED_ORDER \ DOMAIN df[k] |-> ""]]

----------------------------------------------------------------------------
(* Runs_UA_Compiler.py *)

\* UA_NAME_RE.match(f): REGINFO_RIN_DATA_(\d{6})\.xml$, case ignored
UA_NAME_RE(f) ==
  f \in {"REGINFO_RIN_DATA_199510.xml", "REGINFO_RIN_DATA_201810.xml",
         "reginfo_rin_data_199604.XML"}

\* f.lower().endswith(".xml")
EndsWithXml(f) == UA_NAME_RE(f) \/ f \in {"ua_export.xml", "agenda_201810.xml"}

\* list_xmls(src_dir), files the sorted listing of the directory
list_xmls(files) ==
  LET ua_files == SelectSeq(files, UA_NAME_RE)
  IN  IF ua_files # <<>> THEN ua_files ELSE SelectSeq(files, EndsWithXml)

\* extract_pub_ym_from_filename(fname)
extract_pub_ym_from_filename(fname) ==
  CASE fname = "REGINFO_RIN_DATA_199510.xml" -> "199510"
    [] fname = "REGINFO_RIN_DATA_201810.xml" -> "201810"
    [] fname = "reginfo_rin_data_199604.XML" -> "199604"
    [] OTHER                                 -> ""

\* to_pub_int(ym), ym given by its characters
to_pub_int(ym) ==
  LET s_digits == StripNonDigits(ym)
  IN  IF Len(s_digits) = 6 THEN IntOf(s_digits) ELSE -1

\* _pub_ym: _pub_ym_csv where it has length 6, else _pub_ym_file
_pub_ym(row) ==
  LET _pub_ym_csv  == StripNonDigits(Chars(row.PUBLICATION_ID))
      _pub_ym_file == Chars(extract_pub_ym_from_filename(row.source_xml))
  IN  IF Len(_pub_ym_csv) = 6 THEN _pub_ym_csv ELSE _pub_ym_file

\* d.reindex(columns=cols, fill_value=""): the columns d lacks hold ""
reindex(df, cols) ==
  [k \in 1..Len(df) |-> [c \in cols |-> IF c \in DOMAIN df[k] THEN df[k][c] ELSE ""]]

\* final_cols of main: the preferred order with source_xml, then the other
\* columns seen in some file
final_cols(dfs) ==
  _PREFERRED_ORDER \cup {"source_xml"}
    \cup UNION {DOMAIN r : r \in {Concat(dfs)[k] : k \in 1..Len(Concat(dfs))}}

\* df_all of main: the aligned tables concatenated in file order
df_all_of(dfs) ==
  Concat([f \in 1..Len(dfs) |-> reindex(dfs[f], final_cols(dfs))])

\* df with the column source_xml set to the base name
WithSource(df, base) ==
  [k \in 1..Len(df) |-> df[k] @@ [source_xml |-> base]]

\* df_last_calc: df_all with the helper columns _pub_int and _row_ordinal
df_last_calc(df_all) ==
  [k \in 1..Len(df_all) |->
     df_all[k] @@ [_pub_int |-> to_pub_int(_pub_ym(df_all[k])), _row_ordinal |-> k]]

\* key order of sort_values(["RIN", "_pub_int", "_row_ordinal"])
CalcKeyLess(a, b) ==
  \/ RinRank(a.RIN) < RinRank(b.RIN)
  \/ /\ a.RIN = b.RIN
     /\ \/ a._pub_int < b._pub_int
        \/ a._pub_int = b._pub_int /\ a._row_ordinal < b._row_ordinal

\* a Runner that takes the first sorted row of each RIN as the current one
idxFirstOfRIN(calc, k) ==
  \A j \in 1..(k - 1) : calc[j].RIN # calc[k].RIN

\* groupby("RIN")["_pub_int"].idxmax(), on the sorted table: position k is
\* the first of its RIN to hold the largest _pub_int
idx_last(calc, k) ==
  /\ \A j \in 1..Len(calc) : calc[j].RIN = calc[k].RIN => calc[j]._pub_int <= calc[k]._pub_int
  /\ \A j \in 1..(k - 1) :
       calc[j].RIN = calc[k].RIN => calc[j]._pub_int < calc[k]._pub_int

\* a backfill that computes the latest action across the history of the RIN
eo_backfill_latest(calc, last) ==
  LET prior == {j \in 1..Len(calc) : /\ calc[j].RIN = last.RIN
                                     /\ calc[j].Latest_Action # ""
                                     /\ calc[j]._pub_int < last._pub_int}
      latest == CHOOSE j \in prior : \A i \in prior : i <= j
  IN  IF last.Latest_Action = "" /\ prior # {}
        THEN [last EXCEPT !.Latest_Action = calc[latest].Latest_Action,
                          !.latest_action_date = calc[latest].latest_action_date]
        ELSE last

\* a backfill that also takes the value of a row of the current snapshot
eo_backfill_nonstrict(calc, last) ==
  LET prior == {j \in 1..Len(calc) : /\ calc[j].RIN = last.RIN
                                     /\ t(calc[j].EO_13771_DESIGNATION) # ""
                                     /\ calc[j]._pub_int <= last._pub_int}
      latest == CHOOSE j \in prior : \A i \in prior : i <= j
  IN  IF t(last.EO_13771_DESIGNATION) = "" /\ prior # {}
        THEN [last EXCEPT !.EO_13771_DESIGNATION = calc[latest].EO_13771_DESIGNATION]
        ELSE last

\* the EO_13771_DESIGNATION backfill of one last row: the latest strictly
\* earlier row of the RIN with a non-blank value fills a blank one
eo_backfill(calc, last) ==
  LET prior == {j \in 1..Len(calc) : /\ calc[j].RIN = last.RIN
                                     /\ t(calc[j].EO_13771_DESIGNATION) # ""
                                     /\ calc[j]._pub_int < last._pub_int}
      latest == CHOOSE j \in prior : \A i \in prior : i <= j
  IN  IF t(last.EO_13771_DESIGNATION) = "" /\ prior # {}
        THEN [last EXCEPT !.EO_13771_DESIGNATION = calc[latest].EO_13771_DESIGNATION]
        ELSE last

\* the helper columns dropped before saving
DropHelpers(r) == [c \in (DOMAIN r) \ {"_pub_int", "_row_ordinal"} |-> r[c]]

\* df_last_only of main
last_per_rin(df_all) ==
  LET calc      == StableSort(df_last_calc(df_all), CalcKeyLess)
      isLast(k) == idx_last(calc, k)
      sel       == SelectSeq(Indices(Len(calc)), isLast)
  IN  [p \in 1..Len(sel) |-> DropHelpers(eo_backfill(calc, calc[sel[p]]))]


----------------------------------------------------------------------------
(* SpecRunner: Runs_UA_Compiler.main over one source directory *)

MaxRunRows == 2

Designation(x) == <<Node("EO_13771_DESIGNATION", x, 1)>>

\* sorted listings of SRC_DIR
RunDirs ==
  { <<"REGINFO_RIN_DATA_199510.xml", "REGINFO_RIN_DATA_201810.xml", "notes.txt">>,
    <<"REGINFO_RIN_DATA_201810.xml", "reginfo_rin_data_199604.XML">>,
    <<"agenda_201810.xml", "notes.txt">>,
    <<"notes.txt">> }

\* unknown scalar leaves of an entity
Note(x) == <<Node("Note", x, 1)>>

CfrList(a, b) ==
  <<Node("CFR_LIST", None, 1), Node("CFR", a, 2), Node("CFR", b, 2)>>

RunEntities ==
  { \* R1 with its embedded snapshot id and one dated event
    Root \o RinLeaf("R1") \o Publication("199510") \o Designation("")
      \o TimetableList(Timetable("Proposed", "10/01/1995")),
    \* R1 without PUBLICATION: the rank comes from the file name
    Root \o RinLeaf("R1") \o Designation("Deregulatory"),
    \* embedded ids that are not six-digit tokens
    Root \o RinLeaf("R1") \o Publication("1995") \o RuleTitle("T1") \o ContactList,
    \* two leaves of the same unknown tag
    Root \o RinLeaf("R1") \o Publication("1995-10") \o Note("N1") \o Note("N2"),
    \* an entity without RIN child; a related RIN is nested below
    Root \o Publication("201810") \o RelatedList("R2"),
    \* R2 with two events of the same date, in both source orders
    Root \o RinLeaf("R2") \o Publication("201810")
      \o TimetableList(Timetable("Proposed", "10/01/2018") \o Timetable("Final", "10/01/2018")),
    Root \o RinLeaf("R2") \o Publication("201810") \o CfrList("40 CFR 52", "40 CFR 51")
      \o TimetableList(Timetable("Final", "10/01/2018") \o Timetable("Proposed", "10/01/2018")
                         \o Timetable("NPRM", "To Be Determined")),
    \* a comment between the children of the entity
    Root \o RinLeaf("R1") \o Comment("checked") \o Publication("201810") }

\* RIN_INFO elements read so far in the run, over all files
RunRowCount == Len(Concat(rn_ents))

\* the entities read so far from the file being parsed
CurDoc == rn_ents[Len(rn_ents)]

\* the next file's document starts empty
NextDoc ==
  IF rn_fidx < Len(rn_files) THEN Append(rn_ents, <<>>) ELSE rn_ents

\* the tree the parser holds for an element: the stdlib parser drops
\* comments, lxml keeps them
Parsed(e) == IF rn_lxml THEN e ELSE StripComments(e)

\* _iter_rin_infos after `yield el`, when the generator is resumed: el.clear()
\* empties the element and leaves it in its parent; with lxml the loop then
\* walks the previous siblings of the parent, the root element, which has
\* none (or has no parent to delete from); no element leaves the tree
iter_cleanup(attached, i) == attached

RunInit ==
  /\ rn_files = <<>>
  /\ rn_fidx = 0
  /\ rn_cur = <<>>
  /\ rn_dfs = <<>>
  /\ rn_all = <<>>
  /\ rn_last = <<>>
  /\ rn_pc = "start"
  /\ rn_lxml \in BOOLEAN
  /\ rn_ents = <<>>
  /\ rn_attached = {}
  /\ rn_log = <<>>
  /\ IterIdle
  /\ LastIdle
  /\ DateIdle
  /\ ExtIdle

\* main: xml_paths = list_xmls(SRC_DIR); FileNotFoundError when empty
RunList ==
  \E dir \in RunDirs :
    /\ rn_pc = "start"
    /\ rn_files' = list_xmls(dir)
    /\ rn_fidx' = 1
    /\ rn_pc' = IF list_xmls(dir) = <<>> THEN "failed" ELSE "files"
    /\ rn_ents' = IF list_xmls(dir) = <<>> THEN <<>> ELSE << <<>> >>
    /\ UNCHANGED <<rn_cur, rn_dfs, rn_all, rn_last, rn_lxml, rn_attached, rn_log,
                   iterVars, lastVars, dateVars, extVars>>

\* build_ua_csv_from_xml: rows.append(_parse_rin_info(el)) for the next
\* RIN_INFO element of the current file; the cleanup of the element before
\* it has run when the generator was resumed
RunParseEntity ==
  \E e \in RunEntities :
    /\ rn_pc = "files"
    /\ rn_fidx <= Len(rn_files)
    /\ RunRowCount < MaxRunRows
    /\ ~_parse_rin_info_raises(Parsed(e))
    /\ rn_cur' = Append(rn_cur, _parse_rin_info(Parsed(e)))
    /\ rn_ents' = [rn_ents EXCEPT ![Len(rn_ents)] = Append(CurDoc, e)]
    /\ rn_attached' = iter_cleanup(rn_attached, Len(CurDoc)) \cup {Len(CurDoc) + 1}
    /\ UNCHANGED <<rn_files, rn_fidx, rn_dfs, rn_all, rn_last, rn_pc, rn_lxml, rn_log,
                   iterVars, lastVars, dateVars, extVars>>

\* _parse_rin_info raises on the next element: build_ua_csv_from_xml catches
\* ParseError only, the exception reaches main, which skips the file
RunParseRaise ==
  \E e \in RunEntities :
    /\ rn_pc = "files"
    /\ rn_fidx <= Len(rn_files)
    /\ RunRowCount < MaxRunRows
    /\ _parse_rin_info_raises(Parsed(e))
    /\ rn_cur' = <<>>
    /\ rn_ents' = LET d == [rn_ents EXCEPT ![Len(rn_ents)] = Append(CurDoc, e)]
                  IN  IF rn_fidx < Len(rn_files) THEN Append(d, <<>>) ELSE d
    /\ rn_attached' = {}
    /\ rn_fidx' = rn_fidx + 1
    /\ rn_log' = Append(rn_log, [file |-> rn_files[rn_fidx], ok |-> FALSE,
                                 err |-> "AttributeError", rows |-> 0])
    /\ UNCHANGED <<rn_files, rn_dfs, rn_all, rn_last, rn_pc, rn_lxml,
                   iterVars, lastVars, dateVars, extVars>>

\* build_ua_csv_from_xml returns; main sets source_xml, appends to dfs and
\* prints the row count
RunFileDone ==
  /\ rn_pc = "files"
  /\ rn_fidx <= Len(rn_files)
  /\ rn_dfs' = Append(rn_dfs, WithSource(build_ua_csv_from_xml(rn_cur), rn_files[rn_fidx]))
  /\ rn_cur' = <<>>
  /\ rn_ents' = NextDoc
  /\ rn_attached' = {}
  /\ rn_fidx' = rn_fidx + 1
  /\ rn_log' = Append(rn_log, [file |-> rn_files[rn_fidx], ok |-> TRUE,
                               err |-> "", rows |-> Len(rn_cur)])
  /\ UNCHANGED <<rn_files, rn_all, rn_last, rn_pc, rn_lxml, iterVars, lastVars, dateVars, extVars>>

\* a main without the try/except around a file: the exception ends the run
RunFileFailAborts ==
  /\ rn_pc = "files"
  /\ rn_fidx <= Len(rn_files)
  /\ rn_cur' = <<>>
  /\ rn_ents' = NextDoc
  /\ rn_attached' = {}
  /\ rn_fidx' = rn_fidx + 1
  /\ rn_pc' = "failed"
  /\ rn_log' = Append(rn_log, [file |-> rn_files[rn_fidx], ok |-> FALSE,
                               err |-> "RuntimeError", rows |-> 0])
  /\ UNCHANGED <<rn_files, rn_dfs, rn_all, rn_last, rn_lxml, iterVars, lastVars, dateVars, extVars>>

\* the file is missing or cannot be parsed (FileNotFoundError, or ParseError
\* turned into RuntimeError): main prints the warning and skips the file
RunFileFail ==
  /\ rn_pc = "files"
  /\ rn_fidx <= Len(rn_files)
  /\ rn_cur' = <<>>
  /\ rn_ents' = NextDoc
  /\ rn_attached' = {}
  /\ rn_fidx' = rn_fidx + 1
  /\ rn_log' = Append(rn_log, [file |-> rn_files[rn_fidx], ok |-> FALSE,
                               err |-> "RuntimeError", rows |-> 0])
  /\ UNCHANGED <<rn_files, rn_dfs, rn_all, rn_last, rn_pc, rn_lxml, iterVars, lastVars, dateVars, extVars>>

\* main after the loop: RuntimeError when no file parsed, else the
\* combined table and the last-per-RIN table
RunLast ==
  /\ rn_pc = "files"
  /\ rn_fidx > Len(rn_files)
  /\ IF rn_dfs = <<>>
       THEN /\ rn_pc' = "failed"
            /\ UNCHANGED <<rn_all, rn_last>>
       ELSE /\ rn_pc' = "done"
            /\ rn_all' = df_all_of(rn_dfs)
            /\ rn_last' = last_per_rin(df_all_of(rn_dfs))
  /\ UNCHANGED <<rn_files, rn_fidx, rn_cur, rn_dfs, rn_lxml, rn_ents, rn_attached, rn_log,
                 iterVars, lastVars, dateVars, extVars>>

RunNext ==
  RunList \/ RunParseEntity \/ RunParseRaise \/ RunFileDone \/ RunFileFail \/ RunLast

SpecRunner == RunInit /\ [][RunNext]_vars


----------------------------------------------------------------------------
(* Claims on the single-XML parser and the Runner (SpecRunner) *)

\* every row the run holds: the file being parsed, dfs, df_all, df_last_only
RunRows == rn_cur \o Concat(rn_dfs) \o rn_all \o rn_last

\* C5: no row returned by build_ua_csv_from_xml has an empty RIN (an entity
\* without the identity field is skipped), so neither the Runner's combined
\* table nor its last-per-RIN table contains a blank-identity row.
C5_NoBlankIdentityRow ==
  \A k \in 1..Len(RunRows) : RunRows[k].RIN # ""

\* a row's snapshot rank as C6 words it: the digits of the embedded
\* PUBLICATION_ID when there are exactly six, otherwise the six digits of
\* the source file name, otherwise -1
SnapshotRank(row) ==
  LET emb  == StripNonDigits(Chars(row.PUBLICATION_ID))
      file == Chars(extract_pub_ym_from_filename(row.source_xml))
  IN  IF Len(emb) = 6 THEN IntOf(emb)
      ELSE IF Len(file) = 6 /\ isdigit(file) THEN IntOf(file)
      ELSE -1

\* equal on every column but the one the designation backfill may fill
SameButDesignation(a, b) ==
  /\ DOMAIN a = DOMAIN b
  /\ \A c \in (DOMAIN a) \ {"EO_13771_DESIGNATION"} : a[c] = b[c]

\* C6: the Runner's last-per-RIN table has exactly one row per distinct RIN
\* of the combined table, and that row is a row of the RIN with the maximum
\* snapshot rank (so a row of rank -1 is current only if every row of the
\* RIN has rank -1).
C6_OneRowPerRinOfMaxRank ==
  rn_pc = "done" =>
    /\ \A k \in 1..Len(rn_all) :
         Cardinality({p \in 1..Len(rn_last) : rn_last[p].RIN = rn_all[k].RIN}) = 1
    /\ \A p \in 1..Len(rn_last) :
         \E k \in 1..Len(rn_all) :
           /\ rn_all[k].RIN = rn_last[p].RIN
           /\ SameButDesignation(rn_all[k], rn_last[p])
           /\ \A j \in 1..Len(rn_all) :
                rn_all[j].RIN = rn_all[k].RIN
                  => SnapshotRank(rn_all[j]) <= SnapshotRank(rn_all[k])

\* C6 witness: R1 is read first from the 201810 file without embedded id and
\* then from the 199604 file with embedded id 199510; the row of the 201810
\* file is the current one
C6_Witness ==
  /\ rn_pc = "done"
  /\ Len(rn_all) >= 2
  /\ rn_all[1].RIN = "R1" /\ rn_all[1].PUBLICATION_ID = ""
  /\ rn_all[1].source_xml = "REGINFO_RIN_DATA_201810.xml"
  /\ rn_all[2].RIN = "R1" /\ rn_all[2].PUBLICATION_ID = "199510"
  /\ rn_all[2].source_xml = "reginfo_rin_data_199604.XML"
  /\ \E p \in 1..Len(rn_last) :
       /\ rn_last[p].RIN = "R1"
       /\ rn_last[p].source_xml = "REGINFO_RIN_DATA_201810.xml"

\* (normalized date, action label) ascending
DateActionLeq(a, b) ==
  \/ IsoLess(a.TTBL_DATE_ISO, b.TTBL_DATE_ISO)
  \/ /\ a.TTBL_DATE_ISO = b.TTBL_DATE_ISO
     /\ LabelRank(a.TTBL_ACTION) <= LabelRank(b.TTBL_ACTION)

\* C7: in _parse_rin_info, Latest_Action and latest_action_date are those of
\* the timetable item that sorts last under (normalized date, action label)
\* among the items with a non-empty normalized date, whatever the order of
\* the items in the source.
C7_LatestSortsLastByDateAndAction ==
  \A k \in 1..Len(rn_cur) :
    LET hasIso(it) == it.TTBL_DATE_ISO # <<>>
        dated      == SelectSeq(rn_cur[k].TIMETABLE_LIST, hasIso)
    IN  dated # <<>> =>
          \E i \in 1..Len(dated) :
            /\ \A j \in 1..Len(dated) : DateActionLeq(dated[j], dated[i])
            /\ rn_cur[k].Latest_Action = dated[i].TTBL_ACTION
            /\ rn_cur[k].latest_action_date = dated[i].TTBL_DATE_ISO

\* the documents of the files that parsed, in the order of dfs
OkDocs ==
  LET ok(f) == rn_log[f].ok
      sel   == SelectSeq(Indices(Len(rn_log)), ok)
  IN  [j \in 1..Len(sel) |-> rn_ents[sel[j]]]

\* the tags of the direct children of a RIN_INFO element
TopTags(e) == {e[i].tag : i \in {j \in 1..Len(e) : e[j].d = 1}}

ListColumns ==
  DOMAIN TextListColumns \cup DOMAIN ObjectListColumns
    \cup {"TIMETABLE_LIST", "AGENCY_CONTACT_LIST"}

\* C11: every row returned by build_ua_csv_from_xml has every column of the
\* superset schema, whatever the source entity contained: a scalar field or
\* a group absent from the source gives empty strings, an absent list block
\* the empty list; the rows of the combined table keep every column.
C11_SupersetColumnsAlways ==
  /\ Len(OkDocs) = Len(rn_dfs)
  /\ \A j \in 1..Len(rn_dfs) :
       /\ Len(OkDocs[j]) = Len(rn_dfs[j])
       /\ \A k \in 1..Len(rn_dfs[j]) :
            LET row == rn_dfs[j][k]
                e   == OkDocs[j][k]
            IN  /\ _PREFERRED_ORDER \subseteq DOMAIN row
                /\ \A c \in ScalarColumns : c \notin TopTags(e) => row[c] = ""
                /\ \A c \in DOMAIN GroupColumns :
                     GroupColumns[c][1] \notin TopTags(e) => row[c] = ""
                /\ \A c \in ListColumns : c \notin TopTags(e) => row[c] = <<>>
  /\ \A k \in 1..Len(rn_all) : _PREFERRED_ORDER \subseteq DOMAIN rn_all[k]

\* C11 witness: a file has parsed whose entity has neither PUBLICATION nor
\* a list block, and its row holds "" and the empty list there
C11_Witness ==
  \E j \in 1..Len(rn_dfs) : \E k \in 1..Len(rn_dfs[j]) :
    /\ j <= Len(OkDocs) /\ k <= Len(OkDocs[j])
    /\ TopTags(OkDocs[j][k]) = {"RIN", "EO_13771_DESIGNATION"}
    /\ rn_dfs[j][k].PUBLICATION_ID = ""
    /\ rn_dfs[j][k].AGENCY_NAME = ""
    /\ rn_dfs[j][k].TIMETABLE_LIST = <<>>
    /\ rn_dfs[j][k].RULE_TITLE = ""

\* the top-level scalar leaves of an entity whose tag is not a known field
UnknownLeaves(e) ==
  {j \in 1..Len(e) : /\ e[j].d = 1
                     /\ ~IsComment(e[j])
                     /\ e[j].tag \notin _KNOWN_GROUPS_L1
                     /\ ~HasChild(e, j)}

\* C12: every top-level scalar leaf of an entity whose tag is not a known
\* field is captured in the record under its own name (upper-cased or as
\* written) with its text: no text of such a leaf is missing from the record.
C12_UnknownLeavesCaptured ==
  \A k \in 1..Len(rn_cur) :
    \A j \in UnknownLeaves(CurDoc[k]) :
      \E key \in DOMAIN rn_cur[k] :
        /\ key \in {CurDoc[k][j].tag, upper(CurDoc[k][j].tag)}
        /\ rn_cur[k][key] = t(CurDoc[k][j].text)

\* C13: flattening an entity never raises: whatever sub-elements of an
\* entity are missing, empty or malformed, _parse_rin_info returns a record,
\* so no file is given up because of an exception raised while an entity is
\* flattened, and every entity read from the current file has its row.
C13_FlatteningNeverRaises ==
  /\ \A f \in 1..Len(rn_log) : rn_log[f].err # "AttributeError"
  /\ rn_pc = "files" /\ rn_fidx <= Len(rn_files) => Len(rn_cur) = Len(CurDoc)

\* C14: during a streaming pass of _iter_rin_infos, once an entity has been
\* yielded and the generator has resumed, that entity's element and every
\* earlier one are detached from the document tree: only the element being
\* handled is attached, however many entities the document holds.
C14_OnlyCurrentEntityAttached ==
  rn_pc = "files" /\ rn_fidx <= Len(rn_files) => rn_attached \subseteq {Len(CurDoc)}

\* the files of the log that parsed, in order
OkFiles ==
  LET ok(f) == rn_log[f].ok IN SelectSeq(Indices(Len(rn_log)), ok)

\* rows of df_all before those of the j-th parsed file
RowsBefore(j) == Len(Concat(SubSeq(rn_dfs, 1, j - 1)))

C16_FailsIffZeroRows ==
  rn_pc \in {"done", "failed"} =>
    (rn_pc = "failed" <=> Len(Concat(rn_dfs)) = 0)

\* the rows of the combined table that are strictly earlier snapshots of the
\* RIN of row k and hold a non-blank designation
EarlierDesignated(k) ==
  {j \in 1..Len(rn_all) : /\ rn_all[j].RIN = rn_all[k].RIN
                          /\ t(rn_all[j].EO_13771_DESIGNATION) # ""
                          /\ SnapshotRank(rn_all[j]) < SnapshotRank(rn_all[k])}

\* row k of the combined table is a current row of its RIN
IsCurrent(k) ==
  \A j \in 1..Len(rn_all) :
    rn_all[j].RIN = rn_all[k].RIN => SnapshotRank(rn_all[j]) <= SnapshotRank(rn_all[k])

Block(e, c) ==
  LET hit == {j \in 1..Len(e) : e[j].d = 1 /\ e[j].tag = c}
  IN  IF hit = {} THEN 0 ELSE CHOOSE j \in hit : \A i \in hit : j <= i

\* the item children of a list block, in source order
ItemsOf(e, c, item) ==
  LET b == Block(e, c)
      isItem(j) == /\ b # 0 /\ b < j /\ j <= SubtreeEnd(e, b)
                   /\ e[j].d = 2 /\ e[j].tag = item
  IN  SelectSeq(Indices(Len(e)), isItem)

\* the stripped text of the first child of node j with that tag, "" if none
FieldText(e, j, f) ==
  LET hit == {i \in 1..Len(e) : /\ j < i /\ i <= SubtreeEnd(e, j)
                                /\ e[i].d = e[j].d + 1 /\ e[i].tag = f}
  IN  IF hit = {} THEN ""
      ELSE t(e[CHOOSE i \in hit : \A h \in hit : i <= h].text)

\* C20: each list column of _parse_rin_info holds exactly one entry per
\* matching item child of the entity's list block, in source order; the
\* emitted TIMETABLE_LIST is in source order whatever the latest event is.
C20_ListsInSourceOrder ==
  \A k \in 1..Len(rn_cur) :
    LET e   == CurDoc[k]
        row == rn_cur[k]
    IN  /\ \A c \in DOMAIN TextListColumns :
             LET its == ItemsOf(e, c, TextListColumns[c])
             IN  /\ Len(row[c]) = Len(its)
                 /\ \A n \in 1..Len(its) : row[c][n] = t(e[its[n]].text)
        /\ \A c \in DOMAIN ObjectListColumns :
             LET its == ItemsOf(e, c, ObjectListColumns[c][1])
             IN  /\ Len(row[c]) = Len(its)
                 /\ \A n \in 1..Len(its) : \A f \in ObjectListColumns[c][2] :
                      row[c][n][f] = FieldText(e, its[n], f)
        /\ LET its == ItemsOf(e, "TIMETABLE_LIST", "TIMETABLE")
           IN  /\ Len(row.TIMETABLE_LIST) = Len(its)
               /\ \A n \in 1..Len(its) :
                    /\ row.TIMETABLE_LIST[n].TTBL_ACTION = FieldText(e, its[n], "TTBL_ACTION")
                    /\ row.TIMETABLE_LIST[n].TTBL_DATE = FieldText(e, its[n], "TTBL_DATE")
        /\ LET its == ItemsOf(e, "AGENCY_CONTACT_LIST", "CONTACT")
           IN  /\ Len(row.AGENCY_CONTACT_LIST) = Len(its)
               /\ \A n \in 1..Len(its) :
                    \A f \in ContactFields :
                      row.AGENCY_CONTACT_LIST[n][f] = FieldText(e, its[n], f)

\* C20 witness: an entity whose events are written Final, Proposed, NPRM
\* (the last one undated) and whose CFR items are not in sorted order; the
\* row lists them as written and the latest event is derived
C20_Witness ==
  \E k \in 1..Len(rn_cur) :
    /\ Len(rn_cur[k].TIMETABLE_LIST) = 3
    /\ rn_cur[k].TIMETABLE_LIST[1].TTBL_ACTION = "Final"
    /\ rn_cur[k].TIMETABLE_LIST[2].TTBL_ACTION = "Proposed"
    /\ rn_cur[k].TIMETABLE_LIST[3].TTBL_ACTION = "NPRM"
    /\ rn_cur[k].TIMETABLE_LIST[3].TTBL_DATE_ISO = <<>>
    /\ rn_cur[k].CFR_LIST = <<"40 CFR 52", "40 CFR 51">>
    /\ rn_cur[k].Latest_Action # ""


----------------------------------------------------------------------------
(* SpecDates: one raw date given to the three date parsers *)

DateMonths == {0, 1, 2, 4, 12, 13}
DateDays   == {0, 1, 15, 28, 29, 30, 31, 32}
DateYears  == {0, 1900, 1995, 1996, 2000}

\* the raw dates: None, '', the markers, the slash forms, free text
DateInputs ==
  {[k |-> kind, m |-> 0, d |-> 0, y |-> 0] : kind \in {"none", "empty", "tobe", "tbd", "junk"}}
    \cup {[k |-> kind, m |-> mm, d |-> dd, y |-> yy] :
            kind \in {"mdy", "mdy1"}, mm \in DateMonths, dd \in DateDays, yy \in DateYears}
    \cup {[k |-> "my", m |-> mm, d |-> 0, y |-> yy] : mm \in DateMonths, yy \in DateYears}
    \cup {[k |-> "text", m |-> 6, d |-> 1, y |-> 1996],
          [k |-> "text", m |-> 1, d |-> 1, y |-> 1996]}

DateInit ==
  /\ dt_in \in DateInputs
  /\ dt_partial = [done |-> FALSE, date |-> <<>>, precision |-> ""]
  /\ dt_single = [done |-> FALSE, iso |-> <<>>]
  /\ dt_comp = [done |-> FALSE, iso |-> <<>>]
  /\ IterIdle
  /\ LastIdle
  /\ RunIdle
  /\ ExtIdle

\* reginfo_patch: _parse_partial_date(va)
DateParsePartial ==
  /\ ~dt_partial.done
  /\ dt_partial' = [done |-> TRUE] @@ _parse_partial_date(dt_in)
  /\ UNCHANGED <<dt_in, dt_single, dt_comp, iterVars, lastVars, runVars, extVars>>

\* the single-XML parser: _parse_tt_date(raw)
DateParseSingle ==
  /\ ~dt_single.done
  /\ dt_single' = [done |-> TRUE, iso |-> _parse_tt_date_shape(dt_in)]
  /\ UNCHANGED <<dt_in, dt_partial, dt_comp, iterVars, lastVars, runVars, extVars>>

\* the compiler: parse_tt_date(raw)[1]
DateParseCompiler ==
  /\ ~dt_comp.done
  /\ dt_comp' = [done |-> TRUE, iso |-> parse_tt_date_shape(dt_in)]
  /\ UNCHANGED <<dt_in, dt_partial, dt_single, iterVars, lastVars, runVars, extVars>>

DateNext == DateParsePartial \/ DateParseSingle \/ DateParseCompiler

SpecDates == DateInit /\ [][DateNext]_vars

----------------------------------------------------------------------------
(* Claims on the date parsers (SpecDates) *)

\* a day of the proleptic Gregorian calendar, years 1 to 9999
RealDay(y, m, d) ==
  LET leap == (y % 4 = 0 /\ y % 100 # 0) \/ y % 400 = 0
      last == CASE m \in {1, 3, 5, 7, 8, 10, 12} -> 31
                [] m \in {4, 6, 9, 11}           -> 30
                [] m = 2                         -> IF leap THEN 29 ELSE 28
                [] OTHER                         -> 0
  IN  1 <= y /\ y <= 9999 /\ 1 <= d /\ d <= last

\* the result of _parse_partial_date is that date with that precision
PartialIs(date, precision) ==
  dt_partial.date = date /\ dt_partial.precision = precision

\* C18: _parse_partial_date returns (first day of the month, "month") for
\* MM/00/YYYY with a valid month, (the date, "day") for MM/DD/YYYY that is a
\* calendar date, and (none, "unknown") for missing input, for 00/00/YYYY and
\* for any value failing calendar validation; it never returns a date with
\* "unknown" nor none with "day" or "month".
C18_PartialDateLaws ==
  dt_partial.done =>
    /\ (dt_in.k = "mdy" /\ dt_in.d = 0 /\ RealDay(dt_in.y, dt_in.m, 1))
         => PartialIs(<<dt_in.y, dt_in.m, 1>>, "month")
    /\ (dt_in.k = "mdy" /\ dt_in.d # 0 /\ RealDay(dt_in.y, dt_in.m, dt_in.d))
         => PartialIs(<<dt_in.y, dt_in.m, dt_in.d>>, "day")
    /\ (\/ dt_in.k \in {"none", "empty"}
        \/ dt_in.k = "mdy" /\ dt_in.m = 0 /\ dt_in.d = 0
        \/ dt_in.k = "mdy" /\ dt_in.d # 0 /\ ~RealDay(dt_in.y, dt_in.m, dt_in.d)
        \/ dt_in.k = "mdy" /\ dt_in.d = 0 /\ ~RealDay(dt_in.y, dt_in.m, 1))
         => PartialIs(<<>>, "unknown")
    /\ dt_partial.precision \in {"day", "month", "unknown"}
    /\ dt_partial.date = <<>> <=> dt_partial.precision = "unknown"

\* C18 witness: 02/30/1996 has been parsed to (none, "unknown")
C18_Witness ==
  /\ dt_in = [k |-> "mdy", m |-> 2, d |-> 30, y |-> 1996]
  /\ dt_partial.done
  /\ PartialIs(<<>>, "unknown")

\* the ISO date is empty or a day of the calendar
RealOrEmpty(iso) == iso = <<>> \/ RealDay(iso[1], iso[2], iso[3])

\* C19: the date normalizers _parse_tt_date and parse_tt_date return either
\* the empty result or the ISO form of a real calendar date, obtained from
\* the slash patterns only: an input failing calendar validation and a
\* string matching none of the patterns yield no normalized date.
C19_NormalizedDateIsRealOrEmpty ==
  /\ dt_single.done =>
       /\ RealOrEmpty(dt_single.iso)
       /\ dt_in.k \in {"text", "junk"} => dt_single.iso = <<>>
  /\ dt_comp.done =>
       /\ RealOrEmpty(dt_comp.iso)
       /\ dt_in.k \in {"text", "junk"} => dt_comp.iso = <<>>


----------------------------------------------------------------------------
(* reginfo_patch.py: _parse_rin_info *)

\* the characters of the texts of the elements used
PatchChars(s) ==
  CASE s = "" -> <<>>
    [] s = "Yes" -> <<"Y", "e", "s">>
    [] s = " no " -> <<" ", "n", "o", " ">>
    [] s = "Undetermined" -> <<"U", "n", "d", "e", "t", "e", "r", "m", "i", "n", "e", "d">>
    [] s = "R1" -> <<"R", "1">>
    [] s = "R2" -> <<"R", "2">>
    [] s = "R3" -> <<"R", "3">>
    [] s = " R1 " -> <<" ", "R", "1", " ">>
    [] s = "40 CFR 52" -> <<"4", "0", " ", "C", "F", "R", " ", "5", "2">>
    [] s = "Related to" -> <<"R", "e", "l", "a", "t", "e", "d", " ", "t", "o">>
    [] OTHER -> <<"?">>

\* parent.find(path) for a plain tag: the first direct child whose tag is
\* the path as written, 0 for None
find(e, i, path) ==
  LET hit == {j \in 1..Len(e) : /\ i < j /\ j <= SubtreeEnd(e, i)
                                /\ e[j].d = e[i].d + 1 /\ e[j].tag = path}
  IN  IF hit = {} THEN 0 ELSE CHOOSE j \in hit : \A k \in hit : j <= k

\* parent.findall(tag): the direct children of that tag, in document order
findall(e, i, tag) ==
  LET isTag(j) == e[j].tag = tag IN SelectSeq(ChildrenOf(e, i), isTag)

\* _text(elem)
_text(e, i) ==
  IF i = 0 THEN NoText
  ELSE _clean_text(IF e[i].text = None THEN NoText ELSE Text(PatchChars(e[i].text)))

\* _get_all_text(parent, tag): the non-empty texts, as character sequences
_get_all_text(e, parent, tag) ==
  LET els      == findall(e, parent, tag)
      texts    == [k \in 1..Len(els) |-> _text(e, els[k])]
      truthy(x) == ~x.none
      kept     == SelectSeq(texts, truthy)
  IN  [k \in 1..Len(kept) |-> kept[k].cs]

\* _first(node, list_tag) or node: an element without children is false
list_or_node(e, list_tag) == OrElem(e, find(e, 1, list_tag), 1)

\* _parse_rin_info(node) of reginfo_patch: the fields of RinInfo followed here
patch_parse_rin_info(e) ==
  [rin          |-> _text(e, find(e, 1, "RIN")),
   major        |-> _to_bool(_text(e, find(e, 1, "MAJOR"))),
   federalism   |-> _normalize_tri_state(_text(e, find(e, 1, "FEDERALISM"))),
   cfr_list     |-> _get_all_text(e, list_or_node(e, "CFR_LIST"), "CFR"),
   related_rins |-> _get_all_text(e, list_or_node(e, "RELATED_RIN_LIST"), "RIN")]

----------------------------------------------------------------------------
(* SpecPatch: reginfo_patch's normalizers on one text, its parser on one element *)

PatchPads == {<<>>, <<" ">>, <<"\t", " ">>}

PatchTokens ==
  {<<"Y", "e", "s">>,
   <<"Y", "E", "S">>,
   <<"y">>,
   <<"t", "r", "u", "e">>,
   <<"T">>,
   <<"1">>,
   <<"n", "o">>,
   <<"N">>,
   <<"F", "a", "l", "s", "e">>,
   <<"f">>,
   <<"0">>,
   <<"U", "n", "d", "e", "t", "e", "r", "m", "i", "n", "e", "d">>,
   <<"U", "n", " ", " ", "d", "e", "t", "e", "r", "m", "i", "n", "e", "d">>,
   <<>>,
   <<"&nbsp;">>,
   <<"y", "e", " ", "s">>,
   <<"R", "&amp;", "D">>,
   <<"2", "0", "2", "-", "5", "5", "5", "-", "0", "1", "0", "0">>,
   <<"1", "-", "2", "0", "2", "-", "5", "5", "5", "-", "0", "1", "0", "0">>,
   <<"(", "2", "0", "2", ")", " ", "5", "5", "5", "-", "0", "1", "0", "0">>,
   <<"2", "-", "2", "0", "2", "-", "5", "5", "5", "-", "0", "1", "0", "0">>,
   <<"5", "5", "5", "-", "0", "1", "0", "0">>,
   <<"e", "x", "t", ".", " ", "1", "2">>,
   <<"n", "/", "a">>}

\* the texts given to the normalizers: None, and the tokens within blanks
PatchTexts ==
  {NoText} \cup {Text(l \o tok \o r) : l \in PatchPads, tok \in PatchTokens, r \in PatchPads}

Major(x) == <<Node("MAJOR", x, 1)>>

Federalism(x) == <<Node("FEDERALISM", x, 1)>>

\* a RELATED_RIN_LIST of two entries
RelatedList2(a, b) ==
  <<Node("RELATED_RIN_LIST", None, 1),
    Node("RELATED_RIN", None, 2), Node("RIN", a, 3), Node("RIN_RELATION", "Related to", 3),
    Node("RELATED_RIN", None, 2), Node("RIN", b, 3), Node("RIN_RELATION", "Related to", 3)>>

PatchEntities ==
  { Root \o RinLeaf("R1") \o Major("Yes"),
    Root \o RinLeaf("R1") \o Major(" no ") \o Federalism("Yes"),
    Root \o RinLeaf("R1") \o Major("Undetermined") \o Federalism("Undetermined"),
    Root \o RinLeaf("R1") \o Major(""),
    Root \o RinLeaf("R1") \o Federalism(None),
    Root \o RinLeaf(" R1 ") \o Major("Yes") \o RelatedList("R2"),
    Root \o RinLeaf("R1") \o RelatedList2("R2", "R3") \o CfrList("40 CFR 52", "40 CFR 52"),
    Root \o RinLeaf("R1") \o <<Node("RELATED_RIN_LIST", None, 1)>>,
    Root \o RelatedList("R2") }

PatchInit ==
  /\ pt_val \in PatchTexts
  /\ pt_ent \in PatchEntities
  /\ pt_tri = [done |-> FALSE, res |-> NoneResult]
  /\ pt_phone = [done |-> FALSE, res |-> NoText]
  /\ pt_rin = [done |-> FALSE, res |-> patch_parse_rin_info(Root)]
  /\ IterIdle
  /\ LastIdle
  /\ RunIdle
  /\ DateIdle
  /\ StreamIdle

\* _normalize_tri_state(v)
PatchTriState ==
  /\ ~pt_tri.done
  /\ pt_tri' = [done |-> TRUE, res |-> _normalize_tri_state(pt_val)]
  /\ UNCHANGED <<pt_val, pt_ent, pt_phone, pt_rin, iterVars, lastVars, runVars, dateVars,
               streamVars>>

\* _normalize_phone(p)
PatchPhone ==
  /\ ~pt_phone.done
  /\ pt_phone' = [done |-> TRUE, res |-> _normalize_phone(pt_val)]
  /\ UNCHANGED <<pt_val, pt_ent, pt_tri, pt_rin, iterVars, lastVars, runVars, dateVars,
               streamVars>>

\* _parse_rin_info(node)
PatchParse ==
  /\ ~pt_rin.done
  /\ pt_rin' = [done |-> TRUE, res |-> patch_parse_rin_info(pt_ent)]
  /\ UNCHANGED <<pt_val, pt_ent, pt_tri, pt_phone, iterVars, lastVars, runVars, dateVars,
               streamVars>>

PatchNext == PatchTriState \/ PatchPhone \/ PatchParse

SpecPatch == PatchInit /\ [][PatchNext]_vars

----------------------------------------------------------------------------
(* Claims on reginfo_patch (SpecPatch) *)

\* the tokens the claims name, in lower case
TruthyTokens == {<<"y", "e", "s">>, <<"y">>, <<"t", "r", "u", "e">>, <<"t">>, <<"1">>}

FalsyTokens == {<<"n", "o">>, <<"n">>, <<"f", "a", "l", "s", "e">>, <<"f">>, <<"0">>}

\* the tri-state reading of an optional text, as C21 and C22 word it: the
\* cleaned text decides, its case is kept when it is passed through
IsTriStateOf(res, x) ==
  LET c == _clean_text(x)
  IN  IF c.none THEN res.kind = "none"
      ELSE IF lower_seq(c.cs) \in TruthyTokens THEN res.kind = "bool" /\ res.b
      ELSE IF lower_seq(c.cs) \in FalsyTokens THEN res.kind = "bool" /\ ~res.b
      ELSE res.kind = "str" /\ res.cs = c.cs

\* the text of the MAJOR child of the entity, None when there is none
MajorText(e) ==
  LET hit == {j \in 1..Len(e) : e[j].d = 1 /\ e[j].tag = "MAJOR"}
      j   == CHOOSE k \in hit : \A h \in hit : k <= h
  IN  IF hit = {} \/ e[j].text = None THEN NoText ELSE Text(PatchChars(e[j].text))

\* C21: reginfo_patch._parse_rin_info normalizes the major indicator as a
\* tri-state bool: a truthy or falsy token becomes true or false, any other
\* non-empty value is passed through, an empty or missing value gives none.
C21_MajorIsTriState ==
  pt_rin.done => IsTriStateOf(pt_rin.res.major, MajorText(pt_ent))

\* C22: _normalize_tri_state returns true for yes/y/true/t/1 and false for
\* no/n/false/f/0 (case-insensitive, after whitespace cleanup), returns any
\* other non-empty value as it is (the text itself when it is already clean)
\* and none for empty or missing input.
C22_TriStateLaws ==
  pt_tri.done =>
    /\ IsTriStateOf(pt_tri.res, pt_val)
    /\ pt_tri.res.kind = "str" /\ _clean_text(pt_val) = pt_val => pt_tri.res.cs = pt_val.cs
    /\ pt_val.none \/ strip(pt_val.cs) = <<>> => pt_tri.res.kind = "none"

\* C22 witness: "Undetermined" has been normalized and stays "Undetermined"
C22_Witness ==
  /\ pt_val = Text(<<"U", "n", "d", "e", "t", "e", "r", "m", "i", "n", "e", "d">>)
  /\ pt_tri.done
  /\ pt_tri.res = StrResult(<<"U", "n", "d", "e", "t", "e", "r", "m", "i", "n", "e", "d">>)

\* the digits of a text, in order
DigitsOf(x) == IF x.none THEN <<>> ELSE SelectSeq(x.cs, IsDigit)

\* C23: _normalize_phone strips its input to digits and returns "+1" and the
\* digits for 10 digits, "+" and the digits for 11 digits beginning with 1,
\* the digits alone for any other count, and none when there are no digits.
C23_PhoneLaws ==
  pt_phone.done =>
    LET digits == DigitsOf(pt_val)
    IN  /\ digits = <<>> => pt_phone.res = NoText
        /\ Len(digits) = 10 => pt_phone.res = Text(<<"+", "1">> \o digits)
        /\ Len(digits) = 11 /\ digits[1] = "1" => pt_phone.res = Text(<<"+">> \o digits)
        /\ (digits # <<>> /\ Len(digits) # 10 /\ ~(Len(digits) = 11 /\ digits[1] = "1"))
             => pt_phone.res = Text(digits)

\* C23 witness: 1-202-555-0100 has been normalized to +12025550100, which is
\* also what 202-555-0100 gives by the 10-digit rule
C23_Witness ==
  /\ pt_val = Text(<<"1", "-", "2", "0", "2", "-", "5", "5", "5", "-", "0", "1", "0", "0">>)
  /\ pt_phone.done
  /\ pt_phone.res = Text(<<"+", "1", "2", "0", "2", "5", "5", "5", "0", "1", "0", "0">>)
  /\ _normalize_phone(Text(<<"2", "0", "2", "-", "5", "5", "5", "-", "0", "1", "0", "0">>)) = pt_phone.res

\* the identities of the entries of the entity's RELATED_RIN_LIST block: the
\* cleaned texts of the RIN children of its RELATED_RIN items, in source order
RelatedIdentities(e) ==
  LET isEntry(j) == /\ e[j].tag = "RIN" /\ e[j].d = 3 /\ e[j].text # None
                    /\ e[getparent(e, j)].tag = "RELATED_RIN"
                    /\ e[getparent(e, getparent(e, j))].tag = "RELATED_RIN_LIST"
      entries    == SelectSeq(Indices(Len(e)), isEntry)
  IN  [k \in 1..Len(entries) |-> strip(PatchChars(e[entries[k]].text))]

\* C25: in reginfo_patch._parse_rin_info, related_rins holds exactly the
\* identities of the entries of the entity's RELATED_RIN_LIST block, in
\* source order: it is empty for an entity without such entries, and the
\* entity's own RIN is there only if it is listed as a related entry.
C25_RelatedRinsAreTheEntries ==
  pt_rin.done => pt_rin.res.related_rins = RelatedIdentities(pt_ent)

----------------------------------------------------------------------------
(* Claims on the Runner, continued (SpecRunner) *)

\* row k of the combined table is the selected current row of its RIN: the
\* first, in ingestion order, of the rows of the RIN with the maximal rank
IsSelected(k) ==
  /\ IsCurrent(k)
  /\ \A j \in 1..(k - 1) :
       rn_all[j].RIN = rn_all[k].RIN => SnapshotRank(rn_all[j]) < SnapshotRank(rn_all[k])

\* C26: in the Runner's last-per-RIN table every column other than
\* EO_13771_DESIGNATION has exactly the value of the selected current row of
\* the RIN: timetables are not merged across issues, the latest action is not
\* computed across the history, no other field comes from another snapshot.
C26_OnlyDesignationBackfilled ==
  rn_pc = "done" =>
    \A p \in 1..Len(rn_last) :
      \A k \in 1..Len(rn_all) :
        (rn_all[k].RIN = rn_last[p].RIN /\ IsSelected(k)) =>
          /\ DOMAIN rn_last[p] = DOMAIN rn_all[k]
          /\ \A c \in (DOMAIN rn_all[k]) \ {"EO_13771_DESIGNATION"} :
               rn_last[p][c] = rn_all[k][c]

\* C26 witness: R1 has a dated event in the 199510 file and none in the
\* 201810 file; its last-per-RIN row has the empty timetable and no latest
\* action, as the 201810 row
C26_Witness ==
  /\ rn_pc = "done"
  /\ Len(rn_all) = 2 /\ Len(rn_last) = 1
  /\ rn_all[1].RIN = "R1" /\ rn_all[2].RIN = "R1"
  /\ rn_all[1].source_xml = "REGINFO_RIN_DATA_199510.xml"
  /\ rn_all[1].Latest_Action = "Proposed"
  /\ Len(rn_all[1].TIMETABLE_LIST) = 1
  /\ rn_all[2].source_xml = "REGINFO_RIN_DATA_201810.xml"
  /\ rn_all[2].TIMETABLE_LIST = <<>>
  /\ rn_last[1].source_xml = "REGINFO_RIN_DATA_201810.xml"
  /\ rn_last[1].TIMETABLE_LIST = <<>>
  /\ rn_last[1].Latest_Action = ""

----------------------------------------------------------------------------
(* Claims on build_last, continued (SpecLast) *)

\* row r lies inside the bounds the call was given, each bound taken alone
InBounds(r) ==
  /\ bl_call.start_ym = None \/ StrLeq(Chars(bl_call.start_ym), r.publication_id)
  /\ bl_call.end_ym = None \/ StrLeq(r.publication_id, Chars(bl_call.end_ym))

\* row r lies inside the window the call applies: both bounds or none
InWindow(r) ==
  (bl_call.start_ym # None /\ bl_call.end_ym # None) => InBounds(r)

\* the scalar of column c of the record of rin is empty or is the value of c
\* in a row of rin among the rows S(k) that is not later than the record's
\* own snapshot
ScalarsComeFrom(S(_)) ==
  \A rin \in DOMAIN bl_result : \A c \in backfill_cols :
    LET cur == to_int_ym(bl_result[rin].last_pub_ym)
        src == {k \in RowsOf(bl_rows, rin) : S(bl_rows[k]) /\ PubInt(bl_rows[k]) <= cur}
    IN  /\ EmptyCell(bl_result[rin][c]) \/ bl_result[rin][c] \in {bl_rows[k][c] : k \in src}
        /\ (\A k \in src : EmptyCell(bl_rows[k][c])) => EmptyCell(bl_result[rin][c])

\* C24 as stated: every scalar value of a build_last output record for
\* identity X is empty or equal to the value of that field in some snapshot
\* of X inside the requested bounds and not later than X's current snapshot; a
\* field empty in every such snapshot stays empty.
C24_ScalarsFromRequestedBounds == Called => ScalarsComeFrom(InBounds)

\* C24: every scalar value of a build_last output record for identity X is
\* empty or equal to the value of that field in some snapshot of X inside the
\* window the call applies (both bounds given, else all rows) and not later
\* than X's current snapshot; a field empty in every such snapshot stays empty.
C24_ScalarsFromWindow == Called => ScalarsComeFrom(InWindow)

\* C24 witness: the window 199510..199512 over the 1995 snapshot of R1 (agency
\* EPA, no title) and a 2018 snapshot with the title T1: the record of R1 has
\* the agency of 1995 and no title
C24_Witness ==
  /\ Called
  /\ bl_call.start_ym = "199510" /\ bl_call.end_ym = "199512"
  /\ \E k \in RowsOf(bl_rows, "R1") :
       /\ bl_rows[k].publication_id = Chars("201810")
       /\ bl_rows[k].title = "T1"
  /\ "R1" \in DOMAIN bl_result
  /\ bl_result["R1"].agency_name = "EPA"
  /\ bl_result["R1"].title = NaN
  /\ bl_result["R1"].abstract = "A1"

\* C28: in build_last, all fields of one output record that are not
\* backfilled come from a single input row: the row that supplies the
\* record's backfillable scalar fields is the row that supplies its
\* publication_id, source_xml, list columns and last-issue timetable, also
\* when the identity has several rows of the same maximal snapshot rank.
C28_RecordFromSingleRow ==
  Called =>
    \A rin \in DOMAIN bl_result :
      \E m \in MaxRowsOf(Considered, rin) :
        LET cur == Considered[m]
            out == bl_result[rin]
        IN  /\ \A c \in backfill_cols : out[c] = cur[c]
            /\ \A c \in ListAndLatestCols : out[c] = cur[c]
            /\ out.publication_id = cur.publication_id
            /\ out.source_xml = cur.source_xml
            /\ out.timetable_all_last_issue = cur.timetable_all
            /\ out.last_pub_ym = cur.publication_id
            /\ out.source_xml_of_last = cur.source_xml

----------------------------------------------------------------------------
(* UA_CHECKER.py: flatten_rin_info *)

\* publication_id_from_filename: the six digits of REGINFO_RIN_DATA_(\d{6})\.xml$
publication_id_from_filename(xml_path) ==
  CASE xml_path = "REGINFO_RIN_DATA_199510.xml" -> "199510"
    [] xml_path = "REGINFO_RIN_DATA_201810.xml" -> "201810"
    [] xml_path = "REGINFO_RIN_DATA_202010.xml" -> "202010"
    [] OTHER                                    -> ""

\* the loop "Scalar leaves outside list/agency/publication" on one key: the
\* text of the last such leaf, empty or not; NaN when rec gets no such key
flatten_leaf(e, key) ==
  LET taken(j) == /\ ~HasChild(e, j)
                  /\ ~has_ancestor_named(e, j, _EXCLUDE_ANCESTOR)
                  /\ localname(e[j].tag) # ""
                  /\ lower(localname(e[j].tag)) # "rin"
                  /\ canon(localname(e[j].tag)) = key
      hits     == SelectSeq(iter(e, 1), taken)
  IN  IF hits = <<>> THEN NaN ELSE t(e[hits[Len(hits)]].text)

\* rec[key] = t(el.text) over what rec held for the key
FlattenUpdatedBy(e, key, old) ==
  IF flatten_leaf(e, key) = NaN THEN old ELSE flatten_leaf(e, key)

\* _agency_block(block_name): NaN for a key the dict does not get
_agency_block(e, block_name) ==
  LET blk == first_desc_by_name(e, 1, block_name, {"agency_contact_list"})
  IN  IF blk = 0
        THEN [code |-> NaN, name |-> NaN, acronym |-> NaN]
        ELSE [code    |-> TextOrEmpty(e, first_desc_by_name(e, blk, "code", {})),
              name    |-> TextOrEmpty(e, first_desc_by_name(e, blk, "name", {})),
              acronym |-> TextOrEmpty(e, first_desc_by_name(e, blk, "acronym", {}))]

\* flatten_rin_info(rin_info, source_xml, pub_ym); NaN for a key rec lacks
flatten_rin_info(e, source_xml, pub_ym) ==
  LET pub    == first_desc_by_name(e, 1, "publication", _LIST_CONTAINERS)
      pid    == IF pub = 0 THEN 0 ELSE first_desc_by_name(e, pub, "publication_id", {})
      ptt    == IF pub = 0 THEN 0 ELSE first_desc_by_name(e, pub, "publication_title", {})
      ag     == _agency_block(e, "agency")
      pag    == _agency_block(e, "parent_agency")
      tts    == extract_timetable(e)
      latest == LatestInIssue(tts)
  IN  [source_xml                  |-> source_xml,
       publication_id              |->
         Chars(FlattenUpdatedBy(e, "publication_id",
                                IF pid = 0 THEN pub_ym ELSE t(e[pid].text))),
       rin                         |-> RinOf(e),
       publication_title           |->
         FlattenUpdatedBy(e, "publication_title",
                          IF ptt = 0 THEN NaN ELSE t(e[ptt].text)),
       agency_name                 |-> ag.name,
       agency_code                 |-> ag.code,
       agency                      |-> ag.name,
       parent_agency_name          |-> pag.name,
       cfr_list                    |-> list_texts(e, "cfr_list", "cfr"),
       related_rins                |-> extract_related_rins(e),
       timetable_all               |-> tts,
       latest_action_date_in_issue |-> latest.iso,
       latest_action_in_issue      |-> latest.action,
       title                       |-> flatten_leaf(e, "title"),
       stage                       |-> flatten_leaf(e, "stage"),
       abstract                    |-> flatten_leaf(e, "abstract")]

----------------------------------------------------------------------------
(* Claims on iter_rin_records, continued (SpecIter) *)

\* the fields flatten_rin_info always produces
FlattenAlways ==
  {"source_xml", "publication_id", "rin", "cfr_list", "related_rins",
   "timetable_all", "latest_action_date_in_issue", "latest_action_in_issue"}

\* the fields it produces for some entities only
FlattenSometimes ==
  {"publication_title", "agency_name", "agency_code", "agency",
   "parent_agency_name", "title", "stage", "abstract"}

\* C27: flatten_rin_info, given the publication id of the file name, and
\* iter_rin_records produce the same value for every field flatten_rin_info
\* produces, for every entity with a non-empty RIN.
C27_CheckerAgreesWithCompiler ==
  it_pc = "parsing" =>
    \A k \in 1..Len(it_rows) :
      LET e   == it_doc[it_src[k]]
          xml == flatten_rin_info(e, it_file, publication_id_from_filename(it_file))
      IN  /\ \A c \in FlattenAlways : xml[c] = it_rows[k][c]
          /\ \A c \in FlattenSometimes : xml[c] # NaN => xml[c] = it_rows[k][c]

\* the streamed file raised inside its last element
FileRaised == it_doc # <<>> /\ iter_raises(it_doc[Len(it_doc)])

\* C29: in load_all_xml, a document whose parsing fails part-way contributes
\* no records: the combined rows hold all or none of the records of a
\* document, so none of a document that raised.
C29_FailedDocumentContributesNothing ==
  FileRaised => it_rows = <<>>

----------------------------------------------------------------------------
(* SpecStream: one streaming pass of iter_rin_records, loop step by loop step *)

MaxKids == 2

\* a child of the root: a RIN_INFO with an identity ("rin") or without
\* ("norin"), a comment ("com"), or an element grouping such children
Leaf(kind) == [kind |-> kind, items |-> <<>>]

Grp(items) == [kind |-> "grp", items |-> items]

StreamChildren ==
  {Leaf("rin"), Leaf("norin"), Leaf("com"),
   Grp(<<"rin">>), Grp(<<"com", "norin">>), Grp(<<"rin", "norin">>)}

StreamDocs == UNION {[1..n -> StreamChildren] : n \in 0..MaxKids}

\* del parent[0]: the first child leaves the tree
del_nothing(siblings) == siblings

del_first(siblings) == Tail(siblings)

otherVars == <<iterVars, lastVars, runVars, dateVars, patchVars>>

StreamInit ==
  /\ st_top \in BOOLEAN
  /\ st_self \in {"list", "rin", "norin"}
  /\ st_rest \in StreamDocs
  /\ st_self # "list" => st_rest = <<>>
  /\ st_at = "none"
  /\ st_prev = <<>> /\ st_cur = <<>>
  /\ st_gprev = <<>> /\ st_gcur = <<>> /\ st_grest = <<>>
  /\ st_ran = {}
  /\ st_pc = "next"
  /\ IterIdle
  /\ LastIdle
  /\ RunIdle
  /\ DateIdle
  /\ PatchIdle

\* what the loop body does with the element of an end event: a RIN_INFO
\* with an identity is yielded, one without is cleared and skipped; a comment
\* gives no event and any other element is passed over (`continue`)
AfterEvent(kind) ==
  CASE kind = "rin"   -> "yielded"
    [] kind = "norin" -> "skip_loop"
    [] OTHER          -> "next"

AtAfter(kind, where) == IF kind \in {"rin", "norin"} THEN where ELSE "none"

\* `for ev, el in ctx`: the end event of a root element that is the RIN_INFO
StreamRootEvent ==
  /\ st_pc = "next"
  /\ st_self # "list"
  /\ st_at = "none"
  /\ st_at' = "root"
  /\ st_pc' = AfterEvent(st_self)
  /\ UNCHANGED <<st_top, st_self, st_prev, st_cur, st_rest, st_gprev, st_gcur,
                 st_grest, st_ran, otherVars>>

\* the parser reads the next child of the current group
StreamItemEvent ==
  /\ st_pc = "next"
  /\ st_grest # <<>>
  /\ st_gprev' = st_gprev \o st_gcur
  /\ st_gcur' = <<Head(st_grest)>>
  /\ st_grest' = Tail(st_grest)
  /\ st_at' = AtAfter(Head(st_grest), "item")
  /\ st_pc' = AfterEvent(Head(st_grest))
  /\ UNCHANGED <<st_top, st_self, st_prev, st_cur, st_rest, st_ran, otherVars>>

\* the parser reads the next child of the root (the current group, if any,
\* has ended: its end event is passed over)
StreamChildEvent ==
  /\ st_pc = "next"
  /\ st_grest = <<>>
  /\ st_rest # <<>>
  /\ st_prev' = st_prev \o st_cur
  /\ st_cur' = <<Head(st_rest)>>
  /\ st_rest' = Tail(st_rest)
  /\ st_gprev' = <<>>
  /\ st_gcur' = <<>>
  /\ st_grest' = Head(st_rest).items
  /\ st_at' = AtAfter(Head(st_rest).kind, "child")
  /\ st_pc' = AfterEvent(Head(st_rest).kind)
  /\ UNCHANGED <<st_top, st_self, st_ran, otherVars>>

\* the document has ended: the for loop over ctx is exhausted
StreamEnd ==
  /\ st_pc = "next"
  /\ st_grest = <<>>
  /\ st_rest = <<>>
  /\ st_self = "list" \/ st_at = "root"
  /\ st_pc' = "done"
  /\ UNCHANGED <<st_top, st_self, st_at, st_prev, st_cur, st_rest, st_gprev,
                 st_gcur, st_grest, st_ran, otherVars>>

\* the consumer asks for the next record: the generator goes on after
\* `yield rec` with el.clear() and parent = el.getparent()
StreamResume ==
  /\ st_pc = "yielded"
  /\ st_pc' = "yield_loop"
  /\ UNCHANGED <<st_top, st_self, st_at, st_prev, st_cur, st_rest, st_gprev,
                 st_gcur, st_grest, st_ran, otherVars>>

\* `parent is not None and parent.getprevious() is not None`, the parent a
\* group: one turn of the loop deletes the first child of the root
StreamYieldDelete ==
  /\ st_pc = "yield_loop"
  /\ st_at = "item"
  /\ st_prev # <<>>
  /\ st_prev' = del_first(st_prev)
  /\ st_ran' = st_ran \cup {"yield"}
  /\ UNCHANGED <<st_top, st_self, st_at, st_cur, st_rest, st_gprev, st_gcur,
                 st_grest, st_pc, otherVars>>

\* the parent is the root and a comment stands before it: parent.getparent()
\* is None, `del None[0]` raises TypeError and the except clause breaks
StreamYieldBreak ==
  /\ st_pc = "yield_loop"
  /\ st_at = "child"
  /\ st_top
  /\ st_pc' = "next"
  /\ UNCHANGED <<st_top, st_self, st_at, st_prev, st_cur, st_rest, st_gprev,
                 st_gcur, st_grest, st_ran, otherVars>>

\* the loop condition is false: no parent, or no sibling before the parent
StreamYieldExit ==
  /\ st_pc = "yield_loop"
  /\ \/ st_at = "root"
     \/ st_at = "child" /\ ~st_top
     \/ st_at = "item" /\ st_prev = <<>>
  /\ st_pc' = "next"
  /\ UNCHANGED <<st_top, st_self, st_at, st_prev, st_cur, st_rest, st_gprev,
                 st_gcur, st_grest, st_ran, otherVars>>

\* `while el.getprevious() is not None: del el.getparent()[0]`: one turn
\* deletes the first child of the parent of el
StreamSkipDelete ==
  /\ st_pc = "skip_loop"
  /\ \/ /\ st_at = "child"
        /\ st_prev # <<>>
        /\ st_prev' = del_first(st_prev)
        /\ UNCHANGED st_gprev
     \/ /\ st_at = "item"
        /\ st_gprev # <<>>
        /\ st_gprev' = del_first(st_gprev)
        /\ UNCHANGED st_prev
  /\ st_ran' = st_ran \cup {"skip"}
  /\ UNCHANGED <<st_top, st_self, st_at, st_cur, st_rest, st_gcur, st_grest,
                 st_pc, otherVars>>

\* el is the root and a comment stands before it: el.getparent() is None and
\* `del None[0]` raises TypeError, which ends the generator
StreamSkipRaise ==
  /\ st_pc = "skip_loop"
  /\ st_at = "root"
  /\ st_top
  /\ st_pc' = "raised"
  /\ UNCHANGED <<st_top, st_self, st_at, st_prev, st_cur, st_rest, st_gprev,
                 st_gcur, st_grest, st_ran, otherVars>>

\* el has no sibling before it: `continue`
StreamSkipExit ==
  /\ st_pc = "skip_loop"
  /\ \/ st_at = "root" /\ ~st_top
     \/ st_at = "child" /\ st_prev = <<>>
     \/ st_at = "item" /\ st_gprev = <<>>
  /\ st_pc' = "next"
  /\ UNCHANGED <<st_top, st_self, st_at, st_prev, st_cur, st_rest, st_gprev,
                 st_gcur, st_grest, st_ran, otherVars>>

StreamNext ==
  \/ StreamRootEvent \/ StreamItemEvent \/ StreamChildEvent \/ StreamEnd
  \/ StreamResume \/ StreamYieldDelete \/ StreamYieldBreak \/ StreamYieldExit
  \/ StreamSkipDelete \/ StreamSkipRaise \/ StreamSkipExit

\* the pass is sequential code and load_all_xml's for loop always asks for
\* the next record: a step that can be taken is taken
SpecStream == StreamInit /\ [][StreamNext]_vars /\ WF_vars(StreamNext)

----------------------------------------------------------------------------
(* Claims on the streaming pass (SpecStream) *)

\* C30: a streaming pass of iter_rin_records over a finite document
\* terminates: the memory-release loop after a yield and the one after a skip
\* always finish, and the pass reaches the end of the document (or ends with
\* the exception of the skip loop).
C30_PassTerminates ==
  /\ <>(st_pc \in {"done", "raised"})
  /\ (st_pc = "yield_loop") ~> (st_pc = "next")
  /\ (st_pc = "skip_loop") ~> (st_pc \in {"next", "raised"})

\* C30 witness: the pass is over and both loops have deleted a sibling
C30_Witness ==
  /\ st_pc = "done"
  /\ st_ran = {"skip", "yield"}
  /\ st_prev = <<>>

=============================================================================
